---- MODULE Spec2Model ----
(***************************************************************************)
(* OpenPM backend: the OAuth PKCE authorization flow                       *)
(*   src/server/antigravity-auth.ts   (startAuth, loopback callback server) *)
(*   src/unnamed/part_001             (POST /api/auth/login,                *)
(*                                     GET /api/auth/status/:requestId)     *)
(*                                                                         *)
(* The process is one Node.js event loop.  Every action below is one       *)
(* macrotask (an HTTP request handler up to its first network await, a     *)
(* timer callback, the continuation after a network reply) together with   *)
(* the promise reactions (microtasks) it triggers, which Node runs before  *)
(* any other macrotask.                                                    *)
(*                                                                         *)
(* Three specifications share the actions:                                 *)
(*   Spec        several authorizations at once, the identity provider's   *)
(*               redirects and forged callbacks; no clock: an armed timer  *)
(*               fires at any later step                                   *)
(*   SpecInputs  every shape of callback query and of token reply; no clock *)
(*   SpecTimed   a millisecond clock: a timer fires at its deadline and    *)
(*               the clock does not pass an armed timer's deadline         *)
(***************************************************************************)
EXTENDS Integers, Sequences, FiniteSets, TLC

(* ------------------------------ bounds -------------------------------- *)
\* POST /api/auth/login calls in a run of Spec
MaxAuths == 2
\* POST /api/auth/login calls in a run of SpecInputs and of SpecTimed
MaxFlows == 1
\* GET /api/auth/status requests open at one time
MaxPolls == 1
\* SpecTimed: the clock stops here
MaxTime == 400000
MaxChunks == 3
\* requests the bridge client registers in one behaviour
MaxRequests == 2
\* connections the bridge extension's server accepts in one behaviour
MaxClients == 4
\* sockets the bridge client has dropped that have not fired onclose yet
MaxOrphans == 1

(* ------------------------- program constants -------------------------- *)
\* setTimeout(..., 5 * 60 * 1000) in startAuth
AuthTimeoutMs == 300000
\* setTimeout(() => reject(new Error('TIMEOUT')), 25000) in the status handler
PollWindowMs == 25000
\* setTimeout(() => pendingAuthRequests.delete(requestId), 60000)
GraceMs == 60000

\* const maxAttempts = 30 in pollForAuthResult
maxAttempts == 30

\* SpecTimed: the clock moves to the next deadline, or by this much when no timer
\* is due sooner
TimeStep == AuthTimeoutMs \div 3

\* JS null / undefined (searchParams.get of a missing parameter)
Null == "<null>"
\* a timer that is not armed
Off == -1

REDIRECT_PATH == "/oauth-callback"
DEFAULT_PROJECT_ID == "rising-fact-p41fc"

\* JS truthiness of a string-or-null value: `if (error)`, `!code`, `!state`
Truthy(v) == v # Null /\ v # ""

Max(a, b) == IF a >= b THEN a ELSE b
AuthIds == 1 .. Max(MaxAuths, MaxFlows)
PollIds == 1 .. MaxPolls

\* the values the i-th startAuth / login call draws: randomBytes(16) state,
\* randomBytes(32) verifier, crypto.randomUUID() requestId (fresh on every call)
StateOf(i) == "s" \o ToString(i)
VerifierOf(i) == "v" \o ToString(i)
RequestIdOf(i) == "r" \o ToString(i)
RequestIds == {RequestIdOf(i) : i \in AuthIds}

(* -------------------- inputs from outside the process ----------------- *)
\* the authorization code the identity provider issues for the i-th authorization
CodeFor(i) == "c" \o ToString(i)

\* state values no startAuth call has issued
UnknownStates == {Null, "", "forged"}

\* Spec: the provider's redirects for authorization i (a code, a denial, neither),
\* and requests made up by somebody else
ProviderCallbacks ==
    UNION { { [state |-> StateOf(i), code |-> CodeFor(i), error |-> Null],
              [state |-> StateOf(i), code |-> Null, error |-> "access_denied"],
              [state |-> StateOf(i), code |-> Null, error |-> Null] } : i \in AuthIds }
      \cup { [state |-> u, code |-> "c0", error |-> Null] : u \in UnknownStates }

\* SpecInputs: every shape of the query string
AllCallbacks ==
    [ state : {Null, ""} \cup {StateOf(i) : i \in 1 .. MaxFlows},
      code  : {Null, "", "c1"},
      error : {Null, "", "access_denied", "TIMEOUT"} ]

\* requestIds a poller may ask for: issued ones, not yet issued ones, a made-up one
PollTargets == RequestIds \cup {"r0"}

\* replies of the token endpoint (or of the network) to the exchange POST
GoodReply == [net |-> FALSE, ok |-> TRUE, access |-> TRUE, refresh |-> TRUE, text |-> ""]
BadReply == [net |-> FALSE, ok |-> FALSE, access |-> FALSE, refresh |-> FALSE,
             text |-> "invalid_grant"]
TokenResponses ==
    { GoodReply, BadReply,
      [net |-> FALSE, ok |-> TRUE,  access |-> TRUE,  refresh |-> FALSE, text |-> ""],
      [net |-> FALSE, ok |-> TRUE,  access |-> FALSE, refresh |-> TRUE,  text |-> ""],
      [net |-> TRUE,  ok |-> FALSE, access |-> FALSE, refresh |-> FALSE, text |-> "ECONNRESET"] }

\* results of the best-effort lookups that follow a successful exchange
FoundAll == [email |-> "user@example.com", projectId |-> "discovered-project"]
FoundNone == [email |-> Null, projectId |-> DEFAULT_PROJECT_ID]
Lookups == {FoundAll, FoundNone}

(* ------------------------------ state --------------------------------- *)
VARIABLES
    alive,                \* the Node process is running
    rejectionMode,        \* Node's --unhandled-rejections policy: "throw" | "warn"
    now,                  \* Date.now()
    callbackServer,       \* number of listeners created (0: callbackServer === null)
    nextAuth,             \* number of login calls made so far
    pendingAuths,         \* antigravity-auth.ts: Map state -> AuthState
    authTimer,            \* the 5-minute timer of each startAuth call: deadline or Off
    promise,              \* resultPromise of each startAuth call
    exchange,             \* the accepted callback's upstream chain, per startAuth call
    pendingAuthRequests,  \* part_001: Map requestId -> resultPromise
    graceTimer,           \* the 60 s cleanup timer per requestId: deadline or Off
    poll,                 \* the status requests
    hist,                 \* history: what happened to each startAuth call
    lastCb,               \* history: status of the last answer of the loopback server
    discovery,            \* antigravity-auth.ts: one run of fetchProjectId
    gen,                  \* part_001: one POST /api/generate request
    relay,                \* part_001: the pipe from the upstream body to the client
    authUrl,              \* the authorization URL each startAuth call returned
    client,               \* the web client: one run of pollForAuthResult, and localStorage
    bridge,               \* the web client: the AntigravityBridge singleton
    route,                \* the web client: one call of routeTask
    ext                   \* the IDE extension: its WebSocket server and counter

\* the state of the authorization flow, and the state of the other components
authVars == << alive, rejectionMode, now, callbackServer, nextAuth, pendingAuths, authTimer,
               promise, exchange, pendingAuthRequests, graceTimer, poll, hist, lastCb >>
otherVars == << discovery, gen, relay, authUrl >>
peerVars == << client, bridge, route, ext >>
vars == << authVars, otherVars, peerVars >>

NoToken == [access |-> Null, refresh |-> Null, email |-> Null, projectId |-> Null]
Pending == [status |-> "pending", token |-> NoToken, error |-> ""]
NoPromise == [status |-> "none", token |-> NoToken, error |-> ""]
Resolved(tok) == [status |-> "resolved", token |-> tok, error |-> ""]
Rejected(msg) == [status |-> "rejected", token |-> NoToken, error |-> msg]

NoExchange == [phase |-> "none", code |-> Null, verifier |-> Null, sent |-> 0]
IdlePoll == [phase |-> "idle", req |-> Null, promise |-> 0, since |-> Off, deadline |-> Off,
             timer |-> FALSE, status |-> 0, token |-> NoToken, error |-> "",
             waited |-> 0, settled |-> FALSE]
NoHist == [startedAt |-> Off, accepted |-> FALSE, settleCalls |-> 0, settledAt |-> Off,
           timerFired |-> FALSE]

EmptyMap == [k \in {} |-> 0]
MapDelete(m, k) == [x \in DOMAIN m \ {k} |-> m[x]]
MapSet(m, k, v) == [x \in DOMAIN m \cup {k} |-> IF x = k THEN v ELSE m[x]]

\* fetchProjectId is not running
IdleDiscovery ==
    [phase |-> "idle", replies |-> << >>, next |-> 0, contacted |-> << >>, result |-> Null]

\* POST /api/generate: no upstream response kept, nothing sent, no request open
NoResponse == [strategy |-> Null, net |-> FALSE, status |-> 0, body |-> Null, json |-> FALSE]
NoOutput == [status |-> 0, body |-> Null, source |-> Null, contentType |-> Null]

IdleGen ==
    [phase |-> "idle", req |-> Null, apiKey |-> Null, authToken |-> Null,
     calls |-> << >>, replies |-> << >>, finalResponse |-> NoResponse,
     finalSource |-> "unknown", out |-> NoOutput, answers |-> 0]

\* finalResponse.body.pipe(res) before the first chunk: the upstream body open,
\* nothing produced, buffered or written, the response to the client open
IdleRelay ==
    [src |-> "open", produced |-> << >>, buffer |-> << >>, written |-> << >>,
     client |-> "open"]

\* no authorization URL returned yet
NoUrl == [state |-> Null, code_challenge |-> << >>, code_challenge_method |-> Null]

\* the requests the bridge client can register
ReqIds == 1 .. MaxRequests

\* pollForAuthResult has not been called; localStorage holds neither key
IdleClient ==
    [phase |-> "idle", attempts |-> 0, requests |-> 0,
     last |-> [net |-> FALSE, status |-> 0, body |-> [access |-> Null, email |-> Null]],
     before |-> [net |-> FALSE, status |-> 0, body |-> [access |-> Null, email |-> Null]],
     served |-> [net |-> FALSE, status |-> 0, body |-> [access |-> Null, email |-> Null]],
     got200 |-> FALSE, tokens |-> Null, user |-> Null, result |-> Null]

\* a promise of sendRequest that does not exist yet
NoSettlement == [status |-> "none", value |-> Null]

\* new AntigravityBridge(): ws null, not connected, no pending request
IdleBridge ==
    [ws |-> "null", connected |-> FALSE, connecting |-> FALSE, connectTimer |-> FALSE,
     orphans |-> 0, nextReq |-> 0, pendingRequests |-> {},
     timer |-> [r \in ReqIds |-> FALSE],
     promise |-> [r \in ReqIds |-> NoSettlement],
     settleCalls |-> [r \in ReqIds |-> 0]]

\* routeTask has not been called
NoRoute == [executor |-> Null, success |-> FALSE, error |-> Null]
IdleRoute ==
    [phase |-> "idle", mode |-> Null, fileEdit |-> FALSE, up |-> FALSE, req |-> 0,
     cause |-> Null, spark |-> [thrown |-> FALSE, status |-> Null, message |-> Null],
     out |-> NoRoute]

\* the extension before activate(): wss null, connectedClients 0, no connection
IdleExt == [wss |-> FALSE, connectedClients |-> 0, open |-> 0, closing |-> 0, accepted |-> 0]

\* the web client and the IDE extension after loading
InitPeers ==
    /\ client = IdleClient
    /\ bridge = IdleBridge
    /\ route = IdleRoute
    /\ ext = IdleExt

\* the authorization flow after module initialisation
InitAuth ==
    /\ alive = TRUE
    /\ rejectionMode \in {"throw", "warn"}
    /\ now = 0
    /\ callbackServer = 0
    /\ nextAuth = 0
    /\ pendingAuths = EmptyMap
    /\ authTimer = [i \in AuthIds |-> Off]
    /\ promise = [i \in AuthIds |-> NoPromise]
    /\ exchange = [i \in AuthIds |-> NoExchange]
    /\ pendingAuthRequests = EmptyMap
    /\ graceTimer = [r \in RequestIds |-> Off]
    /\ poll = [p \in PollIds |-> IdlePoll]
    /\ hist = [i \in AuthIds |-> NoHist]
    /\ lastCb = 0
    /\ authUrl = [i \in AuthIds |-> NoUrl]

\* the process after start-up: no discovery running, no generation request open
Init ==
    /\ InitAuth
    /\ discovery = IdleDiscovery
    /\ gen = IdleGen
    /\ relay = IdleRelay
    /\ InitPeers

(* ------------------- antigravity-auth.ts: PKCE ------------------------ *)
\* the UTF-8 bytes of the verifier strings
Utf8(v) ==
    CASE v = "v1" -> << 118, 49 >>
      [] v = "v2" -> << 118, 50 >>
      [] v = "v3" -> << 118, 51 >>
      [] v = "v4" -> << 118, 52 >>

\* createHash("sha256").update(verifier).digest(): the 32 bytes of the SHA-256
\* digest of the verifier's bytes
Sha256(bytes) ==
    CASE bytes = << 118, 49 >> ->
           << 59, 252, 38, 149, 148, 239, 100, 146, 40, 233, 167, 75, 171, 0, 240, 66,
              239, 201, 29, 90, 204, 111, 190, 227, 26, 56, 46, 128, 212, 35, 136, 254 >>
      [] bytes = << 118, 50 >> ->
           << 251, 4, 220, 182, 151, 14, 76, 61, 24, 115, 222, 81, 253, 90, 80, 215,
              187, 70, 179, 56, 49, 19, 96, 38, 101, 195, 80, 236, 64, 181, 249, 144 >>
      [] bytes = << 118, 51 >> ->
           << 224, 210, 116, 123, 154, 183, 171, 182, 235, 101, 224, 55, 63, 161, 180, 40,
              162, 139, 214, 216, 162, 56, 1, 6, 220, 192, 128, 245, 128, 5, 238, 20 >>
      [] bytes = << 118, 52 >> ->
           << 142, 56, 161, 234, 92, 104, 28, 142, 154, 8, 241, 175, 70, 95, 31, 7,
              211, 61, 147, 29, 232, 247, 26, 244, 94, 203, 233, 87, 117, 28, 154, 134 >>

\* the base64url alphabet of RFC 4648
Base64UrlAlphabet ==
    << "A", "B", "C", "D", "E", "F", "G", "H", "I", "J", "K", "L", "M",
       "N", "O", "P", "Q", "R", "S", "T", "U", "V", "W", "X", "Y", "Z",
       "a", "b", "c", "d", "e", "f", "g", "h", "i", "j", "k", "l", "m",
       "n", "o", "p", "q", "r", "s", "t", "u", "v", "w", "x", "y", "z",
       "0", "1", "2", "3", "4", "5", "6", "7", "8", "9", "-", "_" >>

\* the characters of the 6-bit groups of a bit string given as a number of n groups
RECURSIVE Sextets(_, _)
Sextets(value, n) ==
    IF n = 0 THEN << >>
    ELSE Append(Sextets(value \div 64, n - 1), Base64UrlAlphabet[(value % 64) + 1])

\* digest("base64url"): three bytes give four characters, a rest of two bytes
\* three and of one byte two; no padding
RECURSIVE Base64Url(_)
Base64Url(bytes) ==
    IF Len(bytes) = 0 THEN << >>
    ELSE IF Len(bytes) = 1 THEN Sextets(bytes[1] * 16, 2)
    ELSE IF Len(bytes) = 2 THEN Sextets(bytes[1] * 1024 + bytes[2] * 4, 3)
    ELSE Sextets(bytes[1] * 65536 + bytes[2] * 256 + bytes[3], 4)
            \o Base64Url(SubSeq(bytes, 4, Len(bytes)))

\* a generatePkce that hashes a verifier of its own and returns another
GeneratePkceOtherVerifier(i) ==
    [verifier |-> VerifierOf(i), challenge |-> Base64Url(Sha256(Utf8(VerifierOf(i + 1))))]

\* lines 59-63, generatePkce: the verifier and the challenge derived from it
GeneratePkce(i) ==
    LET verifier == VerifierOf(i)
    IN  [verifier |-> verifier, challenge |-> Base64Url(Sha256(Utf8(verifier)))]

\* lines 65-77, buildAuthUrl: the query parameters of the authorization URL that
\* take part in PKCE and in the correlation of the callback
BuildAuthUrl(challenge, state) ==
    [state |-> state, code_challenge |-> challenge, code_challenge_method |-> "S256"]

(* --------------------- antigravity-auth.ts helpers -------------------- *)
\* the most recently issued state that is still pending, Null if none
LatestPendingKey ==
    IF DOMAIN pendingAuths = {} THEN Null
    ELSE StateOf(CHOOSE k \in AuthIds :
                    /\ StateOf(k) \in DOMAIN pendingAuths
                    /\ \A j \in AuthIds : j > k => StateOf(j) \notin DOMAIN pendingAuths)

\* a handler that tracks "the current" attempt: any callback with a state completes
\* the most recent pending authorization
AuthKeyCurrent(state) ==
    IF Truthy(state) /\ DOMAIN pendingAuths # {} THEN LatestPendingKey ELSE Null

\* a handler that falls back to the most recent pending authorization when the
\* callback's state matches none
AuthKeyFallback(state) ==
    IF Truthy(state) /\ state \in DOMAIN pendingAuths THEN state ELSE LatestPendingKey

\* lines 196-198: `if (!state || !pendingAuths.has(state)) return;` then
\* `pendingAuths.get(state)!`: the key of the entry the callback is for, Null if none
AuthKeyFor(state) ==
    IF Truthy(state) /\ state \in DOMAIN pendingAuths THEN state ELSE Null

\* a handler that forgets to delete the entry
TakeAuthKeep(pa, s) == pa

\* line 199: `pendingAuths.delete(state)`
TakeAuth(pa, s) == MapDelete(pa, s)

\* line 200: `clearTimeout(auth.timer)`
ClearTimer(tm, i) == [tm EXCEPT ![i] = Off]

\* a handler that looks at the code before the error
CallbackVerdictCodeFirst(code, error) ==
    IF Truthy(code) THEN "exchange"
    ELSE IF Truthy(error) THEN "reject_error"
    ELSE "reject_no_code"

\* lines 202-210: what the handler does with an accepted callback
CallbackVerdict(code, error) ==
    IF Truthy(error) THEN "reject_error"
    ELSE IF ~Truthy(code) THEN "reject_no_code"
    ELSE "exchange"

\* a timer armed with the wrong duration
AuthDeadlineShort(t) == t + GraceMs

\* lines 241-246: the deadline of the timer startAuth arms at time t
AuthDeadline(t) == t + AuthTimeoutMs

\* line 242: `if (pendingAuths.has(state))` in the timer callback
TimerFindsEntry(s) == s \in DOMAIN pendingAuths

\* the credential the token endpoint issues for a code redeemed with a verifier
Grant(kind, code, verifier) == kind \o "(" \o code \o "," \o verifier \o ")"

\* the value standing for an exception that leaves a lookup
Thrown == "<exception>"

\* an exchange that accepts a grant without refresh_token
ExchangeCodeAccessOnly(resp, code, verifier, email, projectId) ==
    IF resp.net THEN Rejected(resp.text)
    ELSE IF ~resp.ok THEN Rejected("Token exchange failed: " \o resp.text)
    ELSE IF ~resp.access THEN Rejected("Token exchange returned no access_token")
    ELSE Resolved([access |-> Grant("access", code, verifier),
                   refresh |-> IF resp.refresh THEN Grant("refresh", code, verifier) ELSE Null,
                   email |-> email, projectId |-> projectId])

\* lines 79-111 and 212-219: exchangeCode on the reply `resp` (access / refresh:
\* the trimmed access_token / refresh_token of the body is truthy), then the
\* lookups; the value the handler settles the promise with (an exception leaving
\* line 213, 214 or 215 is caught at 217 and rejects the promise)
ExchangeCode(resp, code, verifier, email, projectId) ==
    IF resp.net THEN Rejected(resp.text)
    ELSE IF ~resp.ok THEN Rejected("Token exchange failed: " \o resp.text)
    ELSE IF ~resp.access THEN Rejected("Token exchange returned no access_token")
    ELSE IF ~resp.refresh THEN Rejected("Token exchange returned no refresh_token")
    ELSE IF email = Thrown \/ projectId = Thrown THEN Rejected(Thrown)
    ELSE Resolved([access |-> Grant("access", code, verifier),
                   refresh |-> Grant("refresh", code, verifier),
                   email |-> email, projectId |-> projectId])

(* ----------------- antigravity-auth.ts: the lookups --------------------- *)
\* answers of the userinfo endpoint: network error, non-2xx, a body that is no
\* JSON, a JSON body without email, a JSON body with email
EmailReplies ==
    { [net |-> TRUE,  ok |-> FALSE, parses |-> FALSE, email |-> Null],
      [net |-> FALSE, ok |-> FALSE, parses |-> TRUE,  email |-> Null],
      [net |-> FALSE, ok |-> TRUE,  parses |-> FALSE, email |-> Null],
      [net |-> FALSE, ok |-> TRUE,  parses |-> TRUE,  email |-> Null],
      [net |-> FALSE, ok |-> TRUE,  parses |-> TRUE,  email |-> "user@example.com"] }

\* a lookup whose try/catch does not cover the fetch and the parse
FetchUserEmailUnguarded(r) ==
    IF r.net \/ (r.ok /\ ~r.parses) THEN Thrown
    ELSE IF ~r.ok THEN Null
    ELSE r.email

\* lines 113-124: fetchUserEmail; Null stands for undefined
FetchUserEmail(r) ==
    IF r.net THEN Null
    ELSE IF ~r.ok THEN Null
    ELSE IF ~r.parses THEN Null
    ELSE r.email

\* lines 23-26: the discovery endpoints, in list order
CODE_ASSIST_ENDPOINTS ==
    << "https://cloudcode-pa.googleapis.com", "https://daily-cloudcode-pa.googleapis.com" >>

\* the project the k-th endpoint knows
ProjectAt(k) == IF k = 1 THEN "discovered-project" ELSE "project-" \o ToString(k)

\* answers of the k-th endpoint to loadCodeAssist: network error, non-2xx, a body
\* that is no JSON, and JSON bodies whose cloudaicompanionProject is missing, a
\* string (also the empty one), or an object with an id, an empty id, or no id
DiscoveryReplies(k) ==
    { [net |-> TRUE,  ok |-> FALSE, parses |-> FALSE, type |-> "undefined", id |-> Null],
      [net |-> FALSE, ok |-> FALSE, parses |-> TRUE,  type |-> "string", id |-> ProjectAt(k)],
      [net |-> FALSE, ok |-> TRUE,  parses |-> FALSE, type |-> "undefined", id |-> Null],
      [net |-> FALSE, ok |-> TRUE,  parses |-> TRUE,  type |-> "undefined", id |-> Null],
      [net |-> FALSE, ok |-> TRUE,  parses |-> TRUE,  type |-> "string", id |-> ProjectAt(k)],
      [net |-> FALSE, ok |-> TRUE,  parses |-> TRUE,  type |-> "string", id |-> ""],
      [net |-> FALSE, ok |-> TRUE,  parses |-> TRUE,  type |-> "object", id |-> ProjectAt(k)],
      [net |-> FALSE, ok |-> TRUE,  parses |-> TRUE,  type |-> "object", id |-> ""],
      [net |-> FALSE, ok |-> TRUE,  parses |-> TRUE,  type |-> "object", id |-> Null] }

\* what the endpoints will answer, one answer per endpoint
DiscoveryInputs ==
    { r \in [1 .. Len(CODE_ASSIST_ENDPOINTS) -> UNION {DiscoveryReplies(k) : k \in 1 .. Len(CODE_ASSIST_ENDPOINTS)}] :
        \A k \in 1 .. Len(CODE_ASSIST_ENDPOINTS) : r[k] \in DiscoveryReplies(k) }

\* lines 153-161: the answer makes the loop return
Recognised(r) ==
    /\ ~r.net
    /\ r.ok
    /\ r.parses
    /\ \/ r.type = "string"
       \/ r.type = "object" /\ Truthy(r.id)

\* line 139: fetchProjectId enters its loop
StartDiscovery(replies) ==
    [phase |-> "running", replies |-> replies, next |-> 1, contacted |-> << >>,
     result |-> Null]

\* a loop body that notes the identifier but does not return
DiscoveryStepNoReturn(d) ==
    IF d.next > Len(CODE_ASSIST_ENDPOINTS)
    THEN [d EXCEPT !.phase = "returned",
                   !.result = IF @ = Null THEN DEFAULT_PROJECT_ID ELSE @]
    ELSE [d EXCEPT !.next = @ + 1,
                   !.contacted = Append(@, CODE_ASSIST_ENDPOINTS[d.next]),
                   !.result = IF Recognised(d.replies[d.next])
                              THEN d.replies[d.next].id ELSE @]

\* lines 139-167: one iteration of the loop of fetchProjectId, or the return after it
DiscoveryStep(d) ==
    IF d.next > Len(CODE_ASSIST_ENDPOINTS)
    THEN [d EXCEPT !.phase = "returned", !.result = DEFAULT_PROJECT_ID]
    ELSE IF Recognised(d.replies[d.next])
    THEN [d EXCEPT !.phase = "returned",
                   !.contacted = Append(@, CODE_ASSIST_ENDPOINTS[d.next]),
                   !.result = d.replies[d.next].id]
    ELSE [d EXCEPT !.next = @ + 1,
                   !.contacted = Append(@, CODE_ASSIST_ENDPOINTS[d.next])]

RECURSIVE RunDiscovery(_)
RunDiscovery(d) == IF d.phase = "returned" THEN d ELSE RunDiscovery(DiscoveryStep(d))

\* lines 126-168: fetchProjectId
FetchProjectId(replies) == RunDiscovery(StartDiscovery(replies)).result

\* lines 214-215: the two lookups that follow a successful exchange
LookupResult(e, d) == [email |-> FetchUserEmail(e), projectId |-> FetchProjectId(d)]

\* what the two lookups can hand to the handler
LookupOutcomes == {LookupResult(e, d) : e \in EmailReplies, d \in DiscoveryInputs}

(* ------------------------- part_001 helpers --------------------------- *)
\* line 808: the deadline of the cleanup timer armed when the promise settles at t
GraceDeadline(t) == t + GraceMs

\* line 831: the deadline of the race timer of a status request made at t
PollDeadline(t) == t + PollWindowMs

\* a lookup that falls back to the latest login's promise for an unknown requestId
PromiseForLatest(r) ==
    IF r \in DOMAIN pendingAuthRequests THEN pendingAuthRequests[r] ELSE nextAuth

\* line 821: `pendingAuthRequests.get(requestId)`; 0 stands for undefined
PromiseFor(r) == IF r \in DOMAIN pendingAuthRequests THEN pendingAuthRequests[r] ELSE 0

\* lines 827-844: the answer of the status handler once Promise.race has settled
\* with `out` (the authorization promise's outcome, or the race timer's
\* rejection new Error('TIMEOUT'))
StatusReply(out) ==
    IF out.status = "resolved" THEN [status |-> 200, token |-> out.token, error |-> ""]
    ELSE IF out.error = "TIMEOUT" THEN [status |-> 202, token |-> NoToken, error |-> ""]
    ELSE [status |-> 500, token |-> NoToken, error |-> out.error]

\* the status request pl answered at the current instant with `out`
Respond(pl, out, settledNow) ==
    [pl EXCEPT !.phase = "done",
               !.status = StatusReply(out).status,
               !.token = StatusReply(out).token,
               !.error = StatusReply(out).error,
               !.waited = now - pl.since,
               !.since = Off,
               !.settled = settledNow]

\* line 808-811: `resultPromise.finally(...)` returns a promise nobody handles; when
\* resultPromise rejects, so does that one, and Node (policy "throw", the default
\* since v15) raises it as an uncaught exception once the microtasks have run
UnhandledRejectionKills(out) == out.status = "rejected" /\ rejectionMode = "throw"

(***************************************************************************)
(* resolve(...) / reject(...) of promise i is called with outcome `out` by  *)
(* a handler that leaves pendingAuths, the auth timers, the exchanges and   *)
(* the history as pa, tm, ex, hs.  A promise is single-shot: only the first *)
(* call settles it.  Its reactions then run: the .finally of the login      *)
(* handler arms the cleanup timer, every status request awaiting the        *)
(* promise answers; last, an unhandled rejection ends the process and with  *)
(* it every table, timer and open request.                                  *)
(***************************************************************************)
Settle(i, out, pa, tm, ex, hs) ==
    LET first == promise[i].status = "pending"
        crash == first /\ UnhandledRejectionKills(out)
        answered == [p \in PollIds |->
                        IF first /\ poll[p].phase = "waiting" /\ poll[p].promise = i
                        THEN Respond(poll[p], out, TRUE) ELSE poll[p]]
    IN  /\ promise' = IF first THEN [promise EXCEPT ![i] = out] ELSE promise
        /\ hist' = [hs EXCEPT ![i].settleCalls = @ + 1,
                              ![i].settledAt = IF first THEN now ELSE @]
        /\ UNCHANGED << rejectionMode, now, callbackServer, nextAuth >>
        /\ IF crash
           THEN /\ alive' = FALSE
                /\ pendingAuths' = EmptyMap
                /\ pendingAuthRequests' = EmptyMap
                /\ authTimer' = [j \in AuthIds |-> Off]
                /\ graceTimer' = [r \in RequestIds |-> Off]
                /\ exchange' = [j \in AuthIds |->
                                  IF ex[j].phase = "inflight"
                                  THEN [ex[j] EXCEPT !.phase = "lost"] ELSE ex[j]]
                /\ poll' = [p \in PollIds |->
                              IF answered[p].phase = "waiting"
                              THEN [answered[p] EXCEPT !.phase = "aborted", !.timer = FALSE]
                              ELSE [answered[p] EXCEPT !.timer = FALSE]]
           ELSE /\ alive' = alive
                /\ pendingAuths' = pa
                /\ pendingAuthRequests' = pendingAuthRequests
                /\ authTimer' = tm
                /\ graceTimer' = IF first
                                 THEN [graceTimer EXCEPT ![RequestIdOf(i)] = GraceDeadline(now)]
                                 ELSE graceTimer
                /\ exchange' = ex
                /\ poll' = answered


(* ------------------------------ actions ------------------------------- *)
\* a timer with this deadline may fire: at its deadline when the clock runs,
\* at any step once armed when the specification has no clock
Due(deadline, clock) == deadline # Off /\ (clock => deadline <= now)

\* a startAuth that creates a listener on every call
EnsureCallbackServerAgain(n) == n + 1

\* antigravity-auth.ts 173-229: ensureCallbackServer creates the listener once
EnsureCallbackServer(n) == IF n = 0 THEN 1 ELSE n

\* a handler that answers after the lookup: 400 when no authorization is pending
CallbackResponseAfterLookup(path) ==
    IF path # REDIRECT_PATH THEN 404
    ELSE IF DOMAIN pendingAuths = {} THEN 400
    ELSE 200

\* antigravity-auth.ts 183-194: the status the handler answers with, written
\* before code, state and error are looked at
CallbackResponse(path) == IF path # REDIRECT_PATH THEN 404 ELSE 200

\* part_001 799-817 with antigravity-auth.ts 232-255: POST /api/auth/login.
\* startAuth registers the state with its verifier, resolvers and timer; the
\* handler registers the promise under a new requestId and attaches the cleanup.
Login(limit) ==
    /\ alive
    /\ UNCHANGED << discovery, gen, relay, peerVars >>
    /\ nextAuth < limit
    /\ LET i == nextAuth + 1
           pkce == GeneratePkce(i)
       IN
        /\ nextAuth' = i
        /\ callbackServer' = EnsureCallbackServer(callbackServer)
        /\ authUrl' = [authUrl EXCEPT ![i] = BuildAuthUrl(pkce.challenge, StateOf(i))]
        /\ pendingAuths' = MapSet(pendingAuths, StateOf(i),
                                  [verifier |-> pkce.verifier, state |-> StateOf(i),
                                   promise |-> i, timer |-> i])
        /\ authTimer' = [authTimer EXCEPT ![i] = AuthDeadline(now)]
        /\ promise' = [promise EXCEPT ![i] = Pending]
        /\ pendingAuthRequests' = MapSet(pendingAuthRequests, RequestIdOf(i), i)
        /\ hist' = [hist EXCEPT ![i].startedAt = now]
    /\ UNCHANGED << alive, rejectionMode, now, exchange, graceTimer, poll, lastCb >>

\* antigravity-auth.ts 179-220: a request to the loopback server
Callback(path, state, code, error) ==
    /\ alive
    /\ UNCHANGED << otherVars, peerVars >>
    /\ callbackServer > 0
    /\ IF path # REDIRECT_PATH
       THEN /\ lastCb' = CallbackResponse(path)
            /\ UNCHANGED << alive, rejectionMode, now, callbackServer, nextAuth, pendingAuths,
                            authTimer, promise, exchange, pendingAuthRequests, graceTimer,
                            poll, hist >>
       ELSE IF AuthKeyFor(state) = Null
       THEN /\ lastCb' = CallbackResponse(path)
            /\ UNCHANGED << alive, rejectionMode, now, callbackServer, nextAuth, pendingAuths,
                            authTimer, promise, exchange, pendingAuthRequests, graceTimer,
                            poll, hist >>
       ELSE LET key == AuthKeyFor(state)
                auth == pendingAuths[key]
                i == auth.promise
                pa == TakeAuth(pendingAuths, key)
                tm == ClearTimer(authTimer, auth.timer)
                hs == [hist EXCEPT ![i].accepted = TRUE]
                verdict == CallbackVerdict(code, error)
            IN  CASE verdict = "reject_error" ->
                        /\ Settle(i, Rejected(error), pa, tm, exchange, hs)
                        /\ lastCb' = CallbackResponse(path)
                  [] verdict = "reject_no_code" ->
                        /\ Settle(i, Rejected("No code received"), pa, tm, exchange, hs)
                        /\ lastCb' = CallbackResponse(path)
                  [] OTHER ->
                        /\ exchange' = [exchange EXCEPT
                                          ![i] = [phase |-> "inflight", code |-> code,
                                                  verifier |-> auth.verifier,
                                                  sent |-> @.sent + 1]]
                        /\ pendingAuths' = pa
                        /\ authTimer' = tm
                        /\ hist' = hs
                        /\ lastCb' = CallbackResponse(path)
                        /\ UNCHANGED << alive, rejectionMode, now, callbackServer, nextAuth,
                                        promise, pendingAuthRequests, graceTimer, poll >>

\* antigravity-auth.ts 212-219: the token endpoint (then the lookups) answered
ExchangeReply(i, resp, found) ==
    /\ alive
    /\ UNCHANGED << otherVars, peerVars >>
    /\ exchange[i].phase = "inflight"
    /\ Settle(i, ExchangeCode(resp, exchange[i].code, exchange[i].verifier,
                              found.email, found.projectId),
              pendingAuths, authTimer, [exchange EXCEPT ![i].phase = "done"], hist)
    /\ lastCb' = lastCb

\* antigravity-auth.ts 241-246: the 5-minute timer of startAuth call i fires
AuthTimerFire(i, clock) ==
    /\ alive
    /\ UNCHANGED << otherVars, peerVars >>
    /\ Due(authTimer[i], clock)
    /\ LET tm == [authTimer EXCEPT ![i] = Off]
           hs == [hist EXCEPT ![i].timerFired = TRUE]
       IN  IF TimerFindsEntry(StateOf(i))
           THEN /\ Settle(i, Rejected("Auth timed out"),
                          MapDelete(pendingAuths, StateOf(i)), tm, exchange, hs)
                /\ lastCb' = lastCb
           ELSE /\ authTimer' = tm
                /\ hist' = hs
                /\ UNCHANGED << alive, rejectionMode, now, callbackServer, nextAuth,
                                pendingAuths, promise, exchange, pendingAuthRequests,
                                graceTimer, poll, lastCb >>

\* part_001 808: the cleanup timer of requestId r fires
GraceTimerFire(r, clock) ==
    /\ alive
    /\ UNCHANGED << otherVars, peerVars >>
    /\ Due(graceTimer[r], clock)
    /\ graceTimer' = [graceTimer EXCEPT ![r] = Off]
    /\ pendingAuthRequests' = MapDelete(pendingAuthRequests, r)
    /\ UNCHANGED << alive, rejectionMode, now, callbackServer, nextAuth, pendingAuths,
                    authTimer, promise, exchange, poll, hist, lastCb >>

\* part_001 819-845: GET /api/auth/status/:requestId arrives (request slot p)
PollStart(p, r) ==
    /\ alive
    /\ UNCHANGED << otherVars, peerVars >>
    /\ poll[p].phase = "idle"
    /\ \A q \in PollIds : q < p => poll[q].phase # "idle"
    /\ IF PromiseFor(r) = 0
       THEN poll' = [poll EXCEPT ![p] = [@ EXCEPT !.phase = "done", !.status = 404,
                                                  !.error = "Request not found or expired"]]
       ELSE LET i == PromiseFor(r)
                armed == [poll[p] EXCEPT !.phase = "waiting", !.req = r, !.promise = i,
                                         !.since = now,
                                         !.deadline = PollDeadline(now), !.timer = TRUE]
            IN  poll' = [poll EXCEPT ![p] =
                            IF promise[i].status = "pending" THEN armed
                            ELSE Respond(armed, promise[i], TRUE)]
    /\ UNCHANGED << alive, rejectionMode, now, callbackServer, nextAuth, pendingAuths,
                    authTimer, promise, exchange, pendingAuthRequests, graceTimer, hist, lastCb >>

\* part_001 831: the race timer of status request p fires
PollTimerFire(p, clock) ==
    /\ alive
    /\ UNCHANGED << otherVars, peerVars >>
    /\ poll[p].timer
    /\ Due(poll[p].deadline, clock)
    /\ poll' = [poll EXCEPT ![p] =
                    IF @.phase = "waiting"
                    THEN [Respond(@, Rejected("TIMEOUT"), FALSE) EXCEPT
                             !.timer = FALSE, !.deadline = Off]
                    ELSE [@ EXCEPT !.timer = FALSE, !.deadline = Off]]
    /\ UNCHANGED << alive, rejectionMode, now, callbackServer, nextAuth, pendingAuths,
                    authTimer, promise, exchange, pendingAuthRequests, graceTimer, hist, lastCb >>

\* the response of status request p has been delivered and its race timer has
\* fired: the request is over and the slot serves the next request
PollClose(p) ==
    /\ alive
    /\ UNCHANGED << otherVars, peerVars >>
    /\ poll[p].phase = "done"
    /\ ~poll[p].timer
    /\ poll' = [poll EXCEPT ![p] = IdlePoll]
    /\ UNCHANGED << alive, rejectionMode, now, callbackServer, nextAuth, pendingAuths,
                    authTimer, promise, exchange, pendingAuthRequests, graceTimer, hist, lastCb >>

\* the deadlines of the armed timers
Deadlines ==
    {authTimer[i] : i \in {j \in AuthIds : authTimer[j] # Off}}
      \cup {graceTimer[r] : r \in {q \in RequestIds : graceTimer[q] # Off}}
      \cup {poll[p].deadline : p \in {q \in PollIds : poll[q].timer}}

\* time passes, up to the next armed timer's deadline
Advance(t) ==
    /\ alive
    /\ UNCHANGED << otherVars, peerVars >>
    /\ t > now
    /\ t <= MaxTime
    /\ \A d \in Deadlines : t <= d
    /\ now' = t
    /\ UNCHANGED << alive, rejectionMode, callbackServer, nextAuth, pendingAuths, authTimer,
                    promise, exchange, pendingAuthRequests, graceTimer, poll, hist, lastCb >>

\* several authorizations at once; no clock
Next ==
    \/ Login(MaxAuths)
    \/ \E q \in ProviderCallbacks : Callback(REDIRECT_PATH, q.state, q.code, q.error)
    \/ \E i \in AuthIds, resp \in {GoodReply, BadReply} : ExchangeReply(i, resp, FoundAll)
    \/ \E i \in AuthIds : AuthTimerFire(i, FALSE)
    \/ \E r \in RequestIds : GraceTimerFire(r, FALSE)
    \/ \E p \in PollIds, r \in PollTargets : PollStart(p, r)
    \/ \E p \in PollIds : PollTimerFire(p, FALSE)
    \/ \E p \in PollIds : PollClose(p)

Spec == Init /\ [][Next]_vars

\* every shape of callback query and of token reply; no clock
NextInputs ==
    \/ Login(MaxFlows)
    \/ \E q \in AllCallbacks : Callback(REDIRECT_PATH, q.state, q.code, q.error)
    \/ Callback("/favicon.ico", Null, Null, Null)
    \/ \E i \in AuthIds, resp \in TokenResponses, found \in Lookups :
            ExchangeReply(i, resp, found)
    \/ \E i \in AuthIds : AuthTimerFire(i, FALSE)
    \/ \E r \in RequestIds : GraceTimerFire(r, FALSE)
    \/ \E p \in PollIds, r \in PollTargets : PollStart(p, r)
    \/ \E p \in PollIds : PollTimerFire(p, FALSE)
    \/ \E p \in PollIds : PollClose(p)

SpecInputs == Init /\ [][NextInputs]_vars

\* the clock runs; the status requests, which change no table and no timer of an
\* authorization, are left out
NextTimed ==
    \/ Login(MaxFlows)
    \/ \E q \in ProviderCallbacks : Callback(REDIRECT_PATH, q.state, q.code, q.error)
    \/ \E i \in AuthIds, resp \in {GoodReply, BadReply} : ExchangeReply(i, resp, FoundAll)
    \/ \E i \in AuthIds : AuthTimerFire(i, TRUE)
    \/ \E r \in RequestIds : GraceTimerFire(r, TRUE)
    \/ \E t \in Deadlines \cup {now + TimeStep} : Advance(t)

SpecTimed == Init /\ [][NextTimed]_vars


\* every outcome of the two lookups that follow the exchange; no clock
NextLookups ==
    \/ Login(MaxFlows)
    \/ \E q \in ProviderCallbacks : Callback(REDIRECT_PATH, q.state, q.code, q.error)
    \/ \E i \in AuthIds, resp \in {GoodReply, BadReply}, found \in LookupOutcomes :
            ExchangeReply(i, resp, found)
    \/ \E i \in AuthIds : AuthTimerFire(i, FALSE)
    \/ \E r \in RequestIds : GraceTimerFire(r, FALSE)
    \/ \E p \in PollIds, r \in PollTargets : PollStart(p, r)
    \/ \E p \in PollIds : PollTimerFire(p, FALSE)
    \/ \E p \in PollIds : PollClose(p)

SpecLookups == Init /\ [][NextLookups]_vars

\* the authorizations from startAuth to the token exchange, without the status
\* requests; no clock
NextPkce ==
    \/ Login(MaxAuths)
    \/ \E q \in ProviderCallbacks : Callback(REDIRECT_PATH, q.state, q.code, q.error)
    \/ \E i \in AuthIds, resp \in {GoodReply, BadReply} : ExchangeReply(i, resp, FoundAll)
    \/ \E i \in AuthIds : AuthTimerFire(i, FALSE)
    \/ \E r \in RequestIds : GraceTimerFire(r, FALSE)

SpecPkce == Init /\ [][NextPkce]_vars

(* ------------------- fetchProjectId, step by step ---------------------- *)
\* antigravity-auth.ts 139-167: the loop contacts the next endpoint, or ends
DiscoveryIterate ==
    /\ discovery.phase = "running"
    /\ discovery' = DiscoveryStep(discovery)
    /\ UNCHANGED << authVars, gen, relay, authUrl, peerVars >>

\* fetchProjectId has been called; the endpoints answer in every way
InitDiscovery ==
    /\ InitAuth
    /\ discovery \in {StartDiscovery(r) : r \in DiscoveryInputs}
    /\ gen = IdleGen
    /\ relay = IdleRelay
    /\ InitPeers

NextDiscovery == DiscoveryIterate

SpecDiscovery == InitDiscovery /\ [][NextDiscovery]_vars


(* ------------------- part_001: POST /api/generate ---------------------- *)
GEMINI_API_BASE == "https://generativelanguage.googleapis.com/v1beta"
ANTIGRAVITY_PROD_URL == "https://cloudcode-pa.googleapis.com"
DEFAULT_GENERATE_PROJECT == "nodal-zodiac-7f3h4"

\* the states getIdeToken can find state.vscdb in: the file missing, held under a
\* lock by the IDE, not an SQLite database, without the antigravityAuthStatus row,
\* with an empty value, with a value holding no ya29 token, with a value that is
\* not text, and with the token stored bare or inside a JSON document
IdeStores ==
    {"absent", "locked", "corrupt", "no-row", "empty-value", "no-match", "not-text",
     "token", "token-in-json"}

\* lines 157-158: fs.access(dbPath) and new Database(dbPath, readonly) succeed
StoreOpens(store) == store \notin {"absent", "locked", "corrupt"}

\* lines 160-166: what the SELECT and the ya29 pattern find in an opened store;
\* a value without a match method throws
StoreMatch(store) ==
    CASE store \in {"token", "token-in-json"} -> "ya29.ide-token"
      [] store = "not-text" -> Thrown
      [] OTHER -> Null

\* a lookup that lets the exceptions of the store through
GetIdeTokenUnguarded(store) ==
    IF ~StoreOpens(store) THEN Thrown ELSE StoreMatch(store)

\* lines 155-176, getIdeToken: every exception ends in the catch, and null is
\* returned
GetIdeToken(store) ==
    IF ~StoreOpens(store) \/ StoreMatch(store) = Thrown THEN Null
    ELSE StoreMatch(store)

\* line 158: the store is opened read-only, so no statement can change it
StoreAfterLookup(store) == store

\* model names a request can carry: none, the empty string, a name of modelMap, a
\* name absent from it, and a name absent from it that Object.prototype defines
GenModels == {Null, "", "gemini-3-pro-preview", "text-model", "constructor"}

\* what a request and the process bring: the key of .env.local, the x-goog-api-key
\* header, the Authorization header, the IDE's store with the token looked up in
\* it, and the body's model and stream
GenRequests ==
    { [localKey |-> l, headerKey |-> h, clientAuth |-> c, store |-> s,
       ideToken |-> GetIdeToken(s), model |-> m, stream |-> st] :
         l \in {Null, "local-key"}, h \in {Null, "header-key"},
         c \in {Null, "Bearer client-token"}, s \in IdeStores,
         m \in GenModels, st \in BOOLEAN }

\* statuses an upstream answers with
UpstreamStatuses == {200, 201, 400, 429, 500}

\* the body an upstream sends with a status
BodyOf(strategy, status) == strategy \o ":" \o ToString(status)

\* what an upstream call ends in: a network-level exception, or a response; json
\* tells whether the body parses as JSON, and one 200 comes with a body that does not
UpstreamReplies(strategy) ==
    { [strategy |-> strategy, net |-> TRUE, status |-> 0, body |-> "ECONNREFUSED",
       json |-> FALSE] }
      \cup { [strategy |-> strategy, net |-> FALSE, status |-> st,
              body |-> BodyOf(strategy, st), json |-> TRUE] : st \in UpstreamStatuses }
      \cup { [strategy |-> strategy, net |-> FALSE, status |-> 200,
              body |-> "<!DOCTYPE html>", json |-> FALSE] }

\* response.ok
Ok(reply) == ~reply.net /\ reply.status >= 200 /\ reply.status <= 299

\* lines 627-635: the bearer credential; the IDE's token replaces the header
AuthTokenOf(req) ==
    IF Truthy(req.ideToken) THEN "Bearer " \o req.ideToken ELSE req.clientAuth

\* a handler that prefers the caller's key to the local one
ApiKeyOfHeaderFirst(req) == IF Truthy(req.headerKey) THEN req.headerKey ELSE req.localKey

\* line 637: the API key; the local key replaces the header
ApiKeyOf(req) == IF Truthy(req.localKey) THEN req.localKey ELSE req.headerKey

\* a handler that validates the model before it looks at the credentials
AdmissionModelFirst(req) ==
    IF ~Truthy(req.model) THEN 400
    ELSE IF ~Truthy(AuthTokenOf(req)) /\ ~Truthy(ApiKeyOf(req)) THEN 401
    ELSE 0

\* a handler without the credential test
AdmissionNoCredentialCheck(req) == IF ~Truthy(req.model) THEN 400 ELSE 0

\* a handler without the model test
AdmissionNoModelCheck(req) ==
    IF ~Truthy(AuthTokenOf(req)) /\ ~Truthy(ApiKeyOf(req)) THEN 401 ELSE 0

\* lines 639-645: the status the handler refuses the request with, 0 if it goes on
Admission(req) ==
    IF ~Truthy(AuthTokenOf(req)) /\ ~Truthy(ApiKeyOf(req)) THEN 401
    ELSE IF ~Truthy(req.model) THEN 400
    ELSE 0

\* lines 660-674: the public model an internal model name is mapped to. modelMap
\* is an object literal, so modelMap[model] also finds what Object.prototype
\* defines, and the function found is formatted into the URL
MappedModel(model) ==
    CASE model = "gemini-3-flash-preview" -> "gemini-2.5-flash"
      [] model = "gemini-3-flash" -> "gemini-2.5-flash"
      [] model = "gemini-3-pro-preview" -> "gemini-2.5-pro"
      [] model = "gemini-3-pro-low" -> "gemini-2.5-pro"
      [] model = "gemini-3-pro-high" -> "gemini-2.5-pro"
      [] model = "gemini-2.0-flash-exp" -> "gemini-2.5-flash"
      [] model = "gemini-2.0-flash" -> "gemini-2.0-flash"
      [] model = "constructor" -> "function Object() { [native code] }"
      [] OTHER -> model

\* line 708: model.includes('gemini-3'), on the model names of GenRequests
IncludesGemini3(model) == model = "gemini-3-pro-preview"

\* lines 703-714: the model the internal endpoint is asked for
InternalModel(model) ==
    IF IncludesGemini3(model)
    THEN "projects/" \o DEFAULT_GENERATE_PROJECT
           \o "/locations/us-central1/publishers/google/models/" \o model
    ELSE model

\* lines 680-684: the call of the API-key strategy
ApiKeyCall(g) ==
    [strategy |-> "api-key", target |-> GEMINI_API_BASE,
     model |-> MappedModel(g.req.model), credential |-> g.apiKey]

\* a fallback that calls the public endpoint a second time
OAuthCallRetriesKey(g) == ApiKeyCall(g)

\* lines 735-739: the call of the OAuth strategy
OAuthCall(g) ==
    [strategy |-> "oauth", target |-> ANTIGRAVITY_PROD_URL,
     model |-> InternalModel(g.req.model), credential |-> g.authToken]

\* a strategy 1 that keeps only a 2xx
ApiKeyTerminalOnlyOk(reply) == Ok(reply)

\* line 686: `response.ok || response.status === 400`
ApiKeyTerminal(reply) == Ok(reply) \/ (~reply.net /\ reply.status = 400)

\* a fallback that leaves the tag of strategy 1 in place
OAuthSourceStale(reply) == "gemini-api-key-direct"

\* lines 741-759: the tag the OAuth strategy sets for its response
OAuthSource(reply) ==
    IF Ok(reply) THEN "cloud-ai-companion-cracked" ELSE "cloud-ai-companion-failed"

\* a strategy 2 that keeps only a 2xx
OAuthFinalOnlyOk(reply) == IF Ok(reply) THEN reply ELSE NoResponse

\* lines 741-763: the response strategy 2 keeps: the 2xx, the non-2xx rebuilt from
\* its status and text, nothing after an exception
OAuthFinal(reply) == IF reply.net THEN NoResponse ELSE reply

\* a send step that answers exhaustion like a missing credential
SendResponseExhausted401(final, source, stream) ==
    IF final = NoResponse
    THEN [status |-> 401, body |-> "No authorization header and no API Key found",
          source |-> Null, contentType |-> "application/json"]
    ELSE [status |-> final.status, body |-> final.body, source |-> source,
          contentType |-> "application/json"]

\* lines 766-783: the response sent for finalResponse / finalSource. In unary
\* mode `await finalResponse.json()` (777) throws on a body that is no JSON; the
\* handler has no catch around it, the promise of the async handler rejects, and
\* nothing is written to res
SendResponse(final, source, stream) ==
    IF final = NoResponse
    THEN [status |-> 503, body |-> "All attempts failed. Check quota (Antigravity) or API Key.",
          source |-> Null, contentType |-> "application/json"]
    ELSE IF ~Ok(final)
    THEN [status |-> final.status, body |-> final.body, source |-> Null,
          contentType |-> "text/html"]
    ELSE IF stream
    THEN [status |-> 200, body |-> final.body, source |-> Null,
          contentType |-> "text/event-stream"]
    ELSE IF ~final.json
    THEN NoOutput
    ELSE [status |-> 200, body |-> final.body, source |-> source,
          contentType |-> "application/json"]

\* the number of responses a send step wrote
Answers(out) == IF out = NoOutput THEN 0 ELSE 1

\* the handler ends: the response goes out
GenSend(g, final, source) ==
    [g EXCEPT !.phase = "done", !.finalResponse = final, !.finalSource = source,
              !.out = SendResponse(final, source, g.req.stream),
              !.answers = @ + Answers(SendResponse(final, source, g.req.stream))]

\* lines 701-702: strategy 2 is entered, or the handler goes on to send
GenFallback(g) ==
    IF Truthy(g.authToken)
    THEN [g EXCEPT !.phase = "oauth", !.calls = Append(@, OAuthCall(g))]
    ELSE GenSend(g, NoResponse, g.finalSource)

\* lines 626-684: a generation request arrives; refused, or the first call is made
GenRequest(req) ==
    /\ gen.phase = "idle"
    /\ LET g == [IdleGen EXCEPT !.req = req, !.apiKey = ApiKeyOf(req),
                                !.authToken = AuthTokenOf(req)]
       IN  gen' = IF Admission(req) = 401
                  THEN [g EXCEPT !.phase = "done", !.answers = 1,
                          !.out = [status |-> 401, source |-> Null,
                                   body |-> "No authorization header and no API Key found",
                                   contentType |-> "application/json"]]
                  ELSE IF Admission(req) = 400
                  THEN [g EXCEPT !.phase = "done", !.answers = 1,
                          !.out = [status |-> 400, source |-> Null,
                                   body |-> "Model is required",
                                   contentType |-> "application/json"]]
                  ELSE IF Truthy(g.apiKey)
                  THEN [g EXCEPT !.phase = "api-key", !.calls = << ApiKeyCall(g) >>]
                  ELSE GenFallback(g)
    /\ UNCHANGED << authVars, discovery, relay, authUrl, peerVars >>

\* lines 686-699: the call of strategy 1 ends
GenApiKeyReply(reply) ==
    /\ gen.phase = "api-key"
    /\ LET g == [gen EXCEPT !.replies = Append(@, reply)]
       IN  gen' = IF ApiKeyTerminal(reply)
                  THEN GenSend(g, reply, "gemini-api-key-direct")
                  ELSE GenFallback(g)
    /\ UNCHANGED << authVars, discovery, relay, authUrl, peerVars >>

\* lines 741-764: the call of strategy 2 ends
GenOAuthReply(reply) ==
    /\ gen.phase = "oauth"
    /\ LET g == [gen EXCEPT !.replies = Append(@, reply)]
       IN  gen' = IF OAuthFinal(reply) = NoResponse
                  THEN GenSend(g, NoResponse, g.finalSource)
                  ELSE GenSend(g, OAuthFinal(reply), OAuthSource(reply))
    /\ UNCHANGED << authVars, discovery, relay, authUrl, peerVars >>

\* the response has been delivered; the next request may come
GenClose ==
    /\ gen.phase = "done"
    /\ gen' = IdleGen
    /\ UNCHANGED << authVars, discovery, relay, authUrl, peerVars >>

NextGenerate ==
    \/ \E req \in GenRequests : GenRequest(req)
    \/ \E reply \in UpstreamReplies("api-key") : GenApiKeyReply(reply)
    \/ \E reply \in UpstreamReplies("oauth") : GenOAuthReply(reply)
    \/ GenClose

SpecGenerate == Init /\ [][NextGenerate]_vars


(* ------------- part_001: POST /api/generate, the stream relay ---------- *)
\* the k-th event the upstream sends
Chunk(k) == "data: " \o ToString(k)

\* streamed requests: with the API key, with the bearer token, and with both
StreamRequests ==
    { req \in GenRequests :
        /\ req.stream /\ req.model = "text-model" /\ req.store = "absent"
        /\ req.localKey = Null
        /\ req.headerKey # Null \/ req.clientAuth # Null }

\* lines 773-775: the handler has set the event-stream content type and piped the
\* body of the successful response into res
Piping == gen.phase = "done" /\ gen.req.stream /\ Ok(gen.finalResponse)

\* a pipe that takes a chunk from the source and does not write it
PipeWriteDrops(r) == [r EXCEPT !.buffer = Tail(@)]

\* line 775, pipe's data listener: the oldest buffered chunk is written to res
PipeWrite(r) == [r EXCEPT !.written = Append(@, Head(r.buffer)), !.buffer = Tail(@)]

\* the upstream sends its next event; it waits in the body's buffer
UpstreamChunk ==
    /\ Piping
    /\ relay.src = "open"
    /\ Len(relay.produced) < MaxChunks
    /\ LET c == Chunk(Len(relay.produced) + 1)
       IN  relay' = [relay EXCEPT !.produced = Append(@, c), !.buffer = Append(@, c)]
    /\ UNCHANGED << authVars, discovery, gen, authUrl, peerVars >>

\* line 775: the pipe hands a chunk to the client
PipeData ==
    /\ Piping
    /\ relay.buffer # << >>
    /\ relay.client = "open"
    /\ relay' = PipeWrite(relay)
    /\ UNCHANGED << authVars, discovery, gen, authUrl, peerVars >>

\* the upstream finishes its body
UpstreamEnd ==
    /\ Piping
    /\ relay.src = "open"
    /\ relay' = [relay EXCEPT !.src = "ended"]
    /\ UNCHANGED << authVars, discovery, gen, authUrl, peerVars >>

\* line 775, pipe's end listener: once the body is drained and ended, res.end()
PipeEnd ==
    /\ Piping
    /\ relay.src = "ended"
    /\ relay.buffer = << >>
    /\ relay.client = "open"
    /\ relay' = [relay EXCEPT !.client = "ended"]
    /\ UNCHANGED << authVars, discovery, gen, authUrl, peerVars >>

\* the upstream body fails mid-flight. node-fetch listens for the body's error,
\* pipe() does not end its destination when the source fails, and the handler
\* registers nothing: res stays as it is. What the body still buffers is either
\* discarded with it or still delivered.
UpstreamError(drop) ==
    /\ Piping
    /\ relay.src = "open"
    /\ relay' = [relay EXCEPT !.src = "errored",
                              !.buffer = IF drop THEN << >> ELSE @]
    /\ UNCHANGED << authVars, discovery, gen, authUrl, peerVars >>

NextStream ==
    \/ \E req \in StreamRequests : GenRequest(req)
    \/ \E reply \in UpstreamReplies("api-key") : GenApiKeyReply(reply)
    \/ \E reply \in UpstreamReplies("oauth") : GenOAuthReply(reply)
    \/ UpstreamChunk
    \/ PipeData
    \/ UpstreamEnd
    \/ PipeEnd
    \/ \E drop \in BOOLEAN : UpstreamError(drop)

\* the event loop runs the listeners of the pipe whenever they are due
SpecStream ==
    Init /\ [][NextStream]_vars /\ WF_vars(PipeData) /\ WF_vars(PipeEnd)


(* ------------- enable_services.cjs: pollForAuthResult ------------------ *)
\* the bodies of a 200 answer: the TokenSet of a resolved authorization, with the
\* email, and without it when the email lookup failed (res.json drops a property
\* whose value is undefined)
StatusBodies ==
    { [access |-> "access-token", email |-> FoundAll.email],
      [access |-> "access-token", email |-> FoundNone.email] }

NoBody == [access |-> Null, email |-> Null]
NoReply == [net |-> FALSE, status |-> 0, body |-> NoBody]

\* what fetch gives the loop: an answer of the status endpoint (200 with a body,
\* 202, 404, 500), or a rejection because the request failed on the network
StatusReplies ==
    { [net |-> FALSE, status |-> 200, body |-> b] : b \in StatusBodies }
      \cup { [net |-> FALSE, status |-> st, body |-> NoBody] : st \in {202, 404, 500} }
      \cup { [net |-> TRUE, status |-> 0, body |-> NoBody] }

\* part_001 819-845: what the endpoint can answer after it answered `served`: a
\* settled promise stays settled until the entry is deleted, a deleted entry stays
\* deleted
StatusRepliesAfter(served) ==
    { r \in StatusReplies :
        \/ r.net
        \/ served.status \in {0, 202}
        \/ served.status = 200 /\ (r = served \/ r.status = 404)
        \/ served.status = 500 /\ r.status \in {500, 404}
        \/ served.status = 404 /\ r.status = 404 }

\* enable_services.cjs 134, 99, 101, 137: attempts++, the loop condition, and either
\* the next fetch or the final throw
NextAttempt(c) ==
    LET n == c.attempts + 1
    IN  IF n < maxAttempts
        THEN [c EXCEPT !.attempts = n, !.phase = "fetching", !.requests = @ + 1,
                       !.before = c.last]
        ELSE [c EXCEPT !.attempts = n, !.phase = "thrown",
                       !.result = "Authentication timed out"]

\* enable_services.cjs 101-133: one answer handled inside the try block. A rejected
\* fetch, the Error thrown for another status and the TypeError of
\* data.email.split on a missing email all land in the catch, which logs and goes on
HandleStatus(c, r) ==
    LET c1 == [c EXCEPT !.last = r, !.served = IF r.net THEN @ ELSE r]
    IN  IF r.net THEN NextAttempt(c1)
        ELSE IF r.status = 200
        THEN LET c2 == [c1 EXCEPT !.got200 = TRUE, !.tokens = r.body.access]
             IN  IF r.body.email = Null
                 THEN NextAttempt(c2)
                 ELSE [c2 EXCEPT !.user = r.body.email, !.phase = "returned",
                                 !.result = "tokens"]
        ELSE IF r.status = 202 THEN [c1 EXCEPT !.phase = "sleeping"]
        ELSE NextAttempt(c1)

\* enable_services.cjs 95-101: pollForAuthResult is called and sends the first request
PollForAuthResult ==
    /\ client.phase = "idle"
    /\ client' = [client EXCEPT !.phase = "fetching", !.requests = 1]
    /\ UNCHANGED << authVars, otherVars, bridge, route, ext >>

\* enable_services.cjs 101-134: the request is answered, or fails
StatusAnswered(r) ==
    /\ client.phase = "fetching"
    /\ r \in StatusRepliesAfter(client.served)
    /\ client' = HandleStatus(client, r)
    /\ UNCHANGED << authVars, otherVars, bridge, route, ext >>

\* enable_services.cjs 125: the one-second pause after a 202 is over
SleepOver ==
    /\ client.phase = "sleeping"
    /\ client' = NextAttempt(client)
    /\ UNCHANGED << authVars, otherVars, bridge, route, ext >>

NextClient ==
    \/ PollForAuthResult
    \/ \E r \in StatusReplies : StatusAnswered(r)
    \/ SleepOver

SpecClient == Init /\ [][NextClient]_vars


(* ------------- antigravity-extension/src/extension.ts ------------------ *)
\* extension.ts 50-101: startServer. With a server running it only shows a
\* message; otherwise a new WebSocketServer listens
StartServer ==
    /\ ~ext.wss
    /\ ext' = [ext EXCEPT !.wss = TRUE]
    /\ UNCHANGED << authVars, otherVars, client, bridge, route >>

\* extension.ts 59-62: a client connects to the listening server
ClientConnect ==
    /\ ext.wss
    /\ ext.accepted < MaxClients
    /\ ext' = [ext EXCEPT !.connectedClients = @ + 1, !.open = @ + 1,
                          !.accepted = @ + 1]
    /\ UNCHANGED << authVars, otherVars, client, bridge, route >>

\* extension.ts 80-84: an open connection ends and its 'close' handler runs
ClientDisconnect ==
    /\ ext.open > 0
    /\ ext' = [ext EXCEPT !.connectedClients = @ - 1, !.open = @ - 1]
    /\ UNCHANGED << authVars, otherVars, client, bridge, route >>

\* extension.ts 106-114: stopServer. wss.close() stops listening; whether it also
\* terminates the connections depends on the version of ws the extension is built
\* with (7 terminates them, 8 leaves them open), which the sources do not fix. A
\* terminated socket emits 'close' later, from the event loop
StopServer(terminates) ==
    /\ ext.wss
    /\ ext' = [ext EXCEPT !.wss = FALSE, !.connectedClients = 0,
                          !.open = IF terminates THEN 0 ELSE @,
                          !.closing = IF terminates THEN @ + ext.open ELSE @]
    /\ UNCHANGED << authVars, otherVars, client, bridge, route >>

\* extension.ts 80-84: the 'close' event of a connection that stopServer terminated
TerminatedClose ==
    /\ ext.closing > 0
    /\ ext' = [ext EXCEPT !.connectedClients = @ - 1, !.closing = @ - 1]
    /\ UNCHANGED << authVars, otherVars, client, bridge, route >>

NextExtension ==
    \/ StartServer
    \/ ClientConnect
    \/ ClientDisconnect
    \/ \E terminates \in BOOLEAN : StopServer(terminates)
    \/ TerminatedClose

SpecExtension == Init /\ [][NextExtension]_vars


(* ------------- part_011: AntigravityBridge ----------------------------- *)
\* part_011 149-151: isConnected
IsConnected(b) == b.connected /\ b.ws = "open"

\* resolve / reject of a promise: only the first call has an effect
SettleWith(p, outcome) == IF p.status = "pending" THEN outcome ELSE p

Resolution(payload) == [status |-> "resolved", value |-> payload]
Rejection(message) == [status |-> "rejected", value |-> message]

\* the messages the extension sends: the TASK_RESULT of a task, an ERROR with
\* String(e) (extension.ts 190-202), and, for a message it could not handle, an
\* ERROR with requestId 'unknown' (extension.ts 72-76), which is id 0 here; the
\* ids are those of requests sent or not (yet) sent
NoPayload == [success |-> FALSE, error |-> Null]
BridgeMessages ==
    { [requestId |-> id, type |-> "TASK_RESULT", payload |-> [success |-> sc, error |-> Null]] :
          id \in ReqIds, sc \in BOOLEAN }
      \cup { [requestId |-> id, type |-> "ERROR", payload |-> [success |-> FALSE, error |-> e]] :
                 id \in {0} \cup ReqIds, e \in {"", "Error: task failed"} }
      \cup { [requestId |-> 0, type |-> "DIAGNOSTICS", payload |-> NoPayload] }

\* rejectAllPending keeps the timers armed
RejectAllPendingKeepTimers(b, reason) ==
    [b EXCEPT !.promise = [r \in ReqIds |->
                              IF r \in b.pendingRequests
                              THEN SettleWith(b.promise[r], Rejection(reason))
                              ELSE b.promise[r]],
              !.settleCalls = [r \in ReqIds |->
                                  IF r \in b.pendingRequests THEN b.settleCalls[r] + 1
                                  ELSE b.settleCalls[r]],
              !.pendingRequests = {}]

\* part_011 329-335: rejectAllPending
RejectAllPending(b, reason) ==
    [b EXCEPT !.timer = [r \in ReqIds |-> IF r \in b.pendingRequests THEN FALSE
                                          ELSE b.timer[r]],
              !.promise = [r \in ReqIds |->
                              IF r \in b.pendingRequests
                              THEN SettleWith(b.promise[r], Rejection(reason))
                              ELSE b.promise[r]],
              !.settleCalls = [r \in ReqIds |->
                                  IF r \in b.pendingRequests THEN b.settleCalls[r] + 1
                                  ELSE b.settleCalls[r]],
              !.pendingRequests = {}]

\* part_011 271-294: sendRequest arms the timer, registers the entry and sends
SendRequest(b) ==
    LET id == b.nextReq + 1
    IN  [b EXCEPT !.nextReq = id,
                  !.timer[id] = TRUE,
                  !.pendingRequests = @ \cup {id},
                  !.promise[id] = [status |-> "pending", value |-> Null]]

\* part_011 299-324: handleMessage
HandleMessage(b, m) ==
    IF m.requestId \in b.pendingRequests
    THEN [b EXCEPT !.timer[m.requestId] = FALSE,
                   !.pendingRequests = @ \ {m.requestId},
                   !.promise[m.requestId] =
                       SettleWith(@, IF m.type = "ERROR"
                                     THEN Rejection(IF Truthy(m.payload.error)
                                                    THEN m.payload.error
                                                    ELSE "Unknown error")
                                     ELSE Resolution(m.payload)),
                   !.settleCalls[m.requestId] = @ + 1]
    ELSE b

\* part_011 275-278: the timeout callback of request r
RequestTimedOut(b, r) ==
    [b EXCEPT !.timer[r] = FALSE,
              !.pendingRequests = @ \ {r},
              !.promise[r] = SettleWith(@, Rejection("Request timed out")),
              !.settleCalls[r] = @ + 1]

\* a socket the bridge no longer references (or never closed) still fires onclose
Orphaned(b) == IF b.ws \in {"connecting", "open", "closing"} THEN 1 ELSE 0

\* part_011 77-90: connect() creates a socket, unless connected or connecting
BridgeConnect ==
    /\ ~bridge.connected /\ ~bridge.connecting
    /\ bridge.orphans + Orphaned(bridge) <= MaxOrphans
    /\ bridge' = [bridge EXCEPT !.connecting = TRUE, !.connectTimer = TRUE,
                                !.ws = "connecting",
                                !.orphans = @ + Orphaned(bridge)]
    /\ UNCHANGED << authVars, otherVars, client, route, ext >>

\* part_011 84-87: the 5 s connection timer fires
BridgeConnectTimeout ==
    /\ bridge.connectTimer
    /\ bridge' = [bridge EXCEPT !.connectTimer = FALSE, !.connecting = FALSE]
    /\ UNCHANGED << authVars, otherVars, client, route, ext >>

\* part_011 92-100: onopen
BridgeOpen ==
    /\ bridge.ws = "connecting"
    /\ bridge' = [bridge EXCEPT !.ws = "open", !.connectTimer = FALSE,
                                !.connected = TRUE, !.connecting = FALSE]
    /\ UNCHANGED << authVars, otherVars, client, route, ext >>

\* part_011 111-117: onerror; the socket's close event follows
BridgeSocketError ==
    /\ bridge.ws \in {"connecting", "open"}
    /\ bridge' = [bridge EXCEPT !.ws = "closing", !.connectTimer = FALSE,
                                !.connected = FALSE, !.connecting = FALSE]
    /\ UNCHANGED << authVars, otherVars, client, route, ext >>

\* part_011 119-125: onclose of the socket this.ws refers to
BridgeSocketClose ==
    /\ bridge.ws \in {"connecting", "open", "closing"}
    /\ bridge' = RejectAllPending([bridge EXCEPT !.ws = "closed", !.connected = FALSE,
                                                 !.connecting = FALSE],
                                  "Connection closed")
    /\ UNCHANGED << authVars, otherVars, client, route, ext >>

\* part_011 119-125: onclose of a socket the bridge dropped earlier; the handler
\* is the same and acts on the same bridge
BridgeOrphanClose ==
    /\ bridge.orphans > 0
    /\ bridge' = RejectAllPending([bridge EXCEPT !.orphans = @ - 1, !.connected = FALSE,
                                                 !.connecting = FALSE],
                                  "Connection closed")
    /\ UNCHANGED << authVars, otherVars, client, route, ext >>

\* part_011 137-144: disconnect()
BridgeDisconnect ==
    /\ bridge.orphans + Orphaned(bridge) <= MaxOrphans
    /\ bridge' = RejectAllPending([bridge EXCEPT !.ws = "null", !.connected = FALSE,
                                                 !.orphans = @ + Orphaned(bridge)],
                                  "Disconnected")
    /\ UNCHANGED << authVars, otherVars, client, route, ext >>

\* part_011 180-238: getIdeContext, applyEdit, runCommand, openFile or
\* getDiagnostics is called while connected (otherwise they throw)
BridgeRequest ==
    /\ IsConnected(bridge)
    /\ bridge.nextReq < MaxRequests
    /\ bridge' = SendRequest(bridge)
    /\ UNCHANGED << authVars, otherVars, client, route, ext >>

\* part_011 102-109: onmessage, of the current socket or of one dropped earlier
BridgeMessage(m) ==
    /\ bridge.ws \in {"open", "closing"} \/ bridge.orphans > 0
    /\ bridge' = HandleMessage(bridge, m)
    /\ UNCHANGED << authVars, otherVars, client, route, ext >>

\* part_011 275-278: the timer of request r fires
BridgeTimeout(r) ==
    /\ bridge.timer[r]
    /\ bridge' = RequestTimedOut(bridge, r)
    /\ UNCHANGED << authVars, otherVars, client, route, ext >>

(* ------------- taskRouter.ts: routeTask -------------------------------- *)
ExecutionModes == {"SPARK", "ANTIGRAVITY", "HYBRID"}

\* taskRouter.ts 55-72: shouldUseAntigravity; fileEdit is isFileEditTask(task)
ShouldUseAntigravity(mode, fileEdit, b) ==
    IF mode \notin {"ANTIGRAVITY", "HYBRID"} THEN FALSE
    ELSE IF ~IsConnected(b) THEN FALSE
    ELSE IF mode = "HYBRID" THEN fileEdit
    ELSE TRUE

\* what suggestNewTasks does (part_010 473-488): it returns the parsed JSON of the
\* model's answer, which can be any JSON value, null included, or the fallback
\* {status: 'ERROR'}, or it throws the Error of geminiRequest
SparkOutcomes ==
    { [thrown |-> FALSE, status |-> "SUCCESS", message |-> Null],
      [thrown |-> FALSE, status |-> "OK", message |-> Null],
      [thrown |-> FALSE, status |-> "ERROR", message |-> Null],
      [thrown |-> FALSE, status |-> Null, message |-> Null],
      [thrown |-> TRUE, status |-> Null, message |-> "No authentication available"] }

\* the catch block rethrows
RouteAfterBridgeRethrow(rt, settlement) ==
    IF settlement.status = "resolved"
    THEN [rt EXCEPT !.phase = "done",
                    !.out = [executor |-> "ANTIGRAVITY",
                             success |-> settlement.value.success, error |-> Null]]
    ELSE [rt EXCEPT !.phase = "rejected", !.cause = settlement.value]

\* taskRouter.ts 89-100: the await of executeTask is over
RouteAfterBridge(rt, settlement) ==
    IF settlement.status = "resolved"
    THEN [rt EXCEPT !.phase = "done",
                    !.out = [executor |-> "ANTIGRAVITY",
                             success |-> settlement.value.success, error |-> Null]]
    ELSE [rt EXCEPT !.phase = "spark", !.cause = settlement.value]

\* taskRouter.ts 106-121: the await of suggestNewTasks is over. result.status of
\* a null result throws a TypeError inside the try block
RouteAfterSpark(rt, o) ==
    [rt EXCEPT !.phase = "done", !.spark = o,
               !.out = IF o.thrown
                       THEN [executor |-> "SPARK", success |-> FALSE, error |-> o.message]
                       ELSE IF o.status = Null
                       THEN [executor |-> "SPARK", success |-> FALSE,
                             error |-> "Cannot read properties of null"]
                       ELSE [executor |-> "SPARK", success |-> o.status = "SUCCESS",
                             error |-> Null]]

\* taskRouter.ts 77-107 with part_011 156-175: routeTask is called; it either
\* sends EXECUTE_TASK over the bridge or calls Spark
RouteTask(mode, fileEdit) ==
    /\ route.phase = "idle"
    /\ IF ShouldUseAntigravity(mode, fileEdit, bridge)
       THEN /\ bridge.nextReq < MaxRequests
            /\ bridge' = SendRequest(bridge)
            /\ route' = [route EXCEPT !.phase = "antigravity", !.mode = mode,
                                      !.fileEdit = fileEdit, !.up = TRUE,
                                      !.req = bridge.nextReq + 1]
       ELSE /\ route' = [route EXCEPT !.phase = "spark", !.mode = mode,
                                      !.fileEdit = fileEdit,
                                      !.up = IsConnected(bridge)]
            /\ UNCHANGED bridge
    /\ UNCHANGED << authVars, otherVars, client, ext >>

\* taskRouter.ts 89-100: the promise of executeTask has settled
RouteResume ==
    /\ route.phase = "antigravity"
    /\ bridge.promise[route.req].status \in {"resolved", "rejected"}
    /\ route' = RouteAfterBridge(route, bridge.promise[route.req])
    /\ UNCHANGED << authVars, otherVars, client, bridge, ext >>

\* taskRouter.ts 106-121: suggestNewTasks returns or throws
SparkReply(o) ==
    /\ route.phase = "spark"
    /\ route' = RouteAfterSpark(route, o)
    /\ UNCHANGED << authVars, otherVars, client, bridge, ext >>

\* the bridge with the callers of its request methods
NextBridge ==
    \/ BridgeConnect
    \/ BridgeConnectTimeout
    \/ BridgeOpen
    \/ BridgeSocketError
    \/ BridgeSocketClose
    \/ BridgeOrphanClose
    \/ BridgeDisconnect
    \/ BridgeRequest
    \/ \E m \in BridgeMessages : BridgeMessage(m)
    \/ \E r \in ReqIds : BridgeTimeout(r)

SpecBridge == Init /\ [][NextBridge]_vars

\* one call of routeTask, with the bridge connecting, answering and failing
NextRoute ==
    \/ BridgeConnect
    \/ BridgeConnectTimeout
    \/ BridgeOpen
    \/ BridgeSocketError
    \/ BridgeSocketClose
    \/ BridgeOrphanClose
    \/ BridgeDisconnect
    \/ \E m \in BridgeMessages : BridgeMessage(m)
    \/ \E r \in ReqIds : BridgeTimeout(r)
    \/ \E mode \in ExecutionModes, fileEdit \in BOOLEAN : RouteTask(mode, fileEdit)
    \/ RouteResume
    \/ \E o \in SparkOutcomes : SparkReply(o)

SpecRoute == Init /\ [][NextRoute]_vars


(* ------------------------------- claims ------------------------------- *)
Started == 1 .. nextAuth
Settled(i) == promise[i].status \in {"resolved", "rejected"}
TokenOf(i) == [access |-> Grant("access", CodeFor(i), VerifierOf(i)),
               refresh |-> Grant("refresh", CodeFor(i), VerifierOf(i)),
               email |-> FoundAll.email, projectId |-> FoundAll.projectId]

\* C1 (Spec): with several authorizations in flight and their callbacks in any
\* order, the exchange for authorization i is made with the code delivered with
\* state i and verifier i, promise i resolves only with that TokenSet, a status
\* request for requestId i waits on promise i and answers 200 only with that
\* TokenSet, and a callback carrying state i leaves every other promise as it was.
C1_TokensAreOwn ==
    /\ \A i \in Started :
        /\ exchange[i].phase # "none" =>
              exchange[i].code = CodeFor(i) /\ exchange[i].verifier = VerifierOf(i)
        /\ promise[i].status = "resolved" => promise[i].token = TokenOf(i)
    /\ \A p \in PollIds : \A i \in AuthIds :
        poll[p].req = RequestIdOf(i) =>
            /\ poll[p].promise = i
            /\ poll[p].status = 200 => poll[p].token = TokenOf(i)

C1_CallbackStep ==
    promise' # promise =>
        \A i \in AuthIds : \A q \in {c \in ProviderCallbacks : c.state = StateOf(i)} :
            Callback(REDIRECT_PATH, q.state, q.code, q.error)
                => \A j \in AuthIds \ {i} : promise'[j] = promise[j]

C1_NoCrossTalk == []C1_TokensAreOwn /\ [][C1_CallbackStep]_vars

\* C1 witness: the second authorization's callback came first and completed, and a
\* status request for its requestId got its TokenSet, while the first is still open
C1_Witness ==
    /\ nextAuth >= 2
    /\ promise[2].status = "resolved"
    /\ promise[1].status = "pending" /\ ~hist[1].accepted
    /\ \E p \in PollIds : poll[p].req = RequestIdOf(2) /\ poll[p].status = 200


\* C2 (SpecTimed): an authorization whose state no accepted callback carried is
\* pending, registered and covered by its timer until 5 minutes after startAuth;
\* the timer's firing rejects it with the timeout error and removes its entry in
\* that step, not earlier and not later, and leaves it settled.
C2_TimeoutExact ==
    \A i \in Started :
        LET due == hist[i].startedAt + AuthTimeoutMs IN
        /\ promise[i] = Rejected("Auth timed out") =>
              /\ hist[i].timerFired /\ ~hist[i].accepted
              /\ hist[i].settledAt = due
              /\ StateOf(i) \notin DOMAIN pendingAuths
        /\ (~hist[i].accepted /\ hist[i].timerFired) =>
              /\ promise[i] = Rejected("Auth timed out")
              /\ StateOf(i) \notin DOMAIN pendingAuths
        /\ (alive /\ ~hist[i].accepted /\ ~hist[i].timerFired) =>
              /\ promise[i] = Pending
              /\ StateOf(i) \in DOMAIN pendingAuths
              /\ authTimer[i] = due
              /\ now <= due

\* C2 witness: a promise rejected by its timer, 5 minutes after its startAuth
C2_Witness ==
    \E i \in Started :
        /\ promise[i] = Rejected("Auth timed out")
        /\ now = hist[i].startedAt + AuthTimeoutMs
        /\ ~hist[i].accepted

\* C3 (Spec): a request to the callback path whose state is absent or is no key of
\* pendingAuths changes no table, settles no promise, clears no timer and starts no
\* exchange, and is answered 200.
C3_Frame ==
    /\ pendingAuths' = pendingAuths
    /\ promise' = promise
    /\ authTimer' = authTimer
    /\ exchange' = exchange
    /\ pendingAuthRequests' = pendingAuthRequests
    /\ graceTimer' = graceTimer

C3_UnknownStateStep ==
    (C3_Frame /\ lastCb' = 200)
    \/ \A q \in {c \in ProviderCallbacks : c.state = Null \/ c.state \notin DOMAIN pendingAuths} :
           ~Callback(REDIRECT_PATH, q.state, q.code, q.error)

C3_UnknownStateNoOp == [][C3_UnknownStateStep]_vars

\* C3 witness: the loopback server answered 200 while an authorization was pending,
\* and no authorization's callback has been accepted
C3_Witness ==
    /\ lastCb = 200
    /\ \A i \in AuthIds : ~hist[i].accepted
    /\ \E i \in Started : promise[i] = Pending /\ StateOf(i) \in DOMAIN pendingAuths

\* C4 (SpecInputs), as claimed: a status request that found its promise answers 202
\* exactly when the promise was still unsettled as the poll window elapsed; once the
\* promise has settled the answer is 200 (resolved) or 5xx (rejected).
C4_PendingOnlyWhenUnsettled ==
    \A p \in PollIds :
        (poll[p].phase = "done" /\ poll[p].status # 404) =>
            /\ poll[p].status = 202 <=> ~poll[p].settled
            /\ poll[p].settled =>
                 \/ promise[poll[p].promise].status = "resolved" /\ poll[p].status = 200
                 \/ promise[poll[p].promise].status = "rejected" /\ poll[p].status >= 500

\* C5 (Spec): resolve/reject is called at most once per promise; what settled it is
\* exactly one of the accepted callback (its rejection, or the outcome of its
\* exchange) and the timer; an accepted callback leaves the timer disarmed and
\* unfired; every 200/5xx answer to a status request carries the promise's outcome.
C5_SettlesOnce ==
    \A i \in Started :
        /\ hist[i].settleCalls <= 1
        /\ Settled(i) <=> hist[i].settleCalls = 1
        /\ ~(hist[i].accepted /\ hist[i].timerFired)
        /\ hist[i].accepted => authTimer[i] = Off
        /\ promise[i].status = "resolved" => hist[i].accepted /\ exchange[i].phase = "done"
        /\ promise[i].status = "rejected" =>
              /\ promise[i].error = "Auth timed out" <=> hist[i].timerFired
              /\ promise[i].error # "Auth timed out" <=> hist[i].accepted
        /\ \A p \in PollIds :
              (poll[p].promise = i /\ poll[p].status \in {200, 500}) =>
                  /\ Settled(i)
                  /\ poll[p].status = 200 <=> promise[i].status = "resolved"
                  /\ poll[p].token = promise[i].token
                  /\ poll[p].error = promise[i].error

\* C5 witness: a promise settled by its timer, and a status request answered with
\* that outcome
C5_Witness ==
    \E p \in PollIds :
        /\ poll[p].status = 500
        /\ poll[p].error = "Auth timed out"
        /\ hist[poll[p].promise].settleCalls = 1


\* C6 (SpecInputs), as claimed: a registry entry is there while its promise is
\* unsettled and from the settling until the cleanup timer fires, and a status
\* request answered from a settled promise reports the terminal outcome: 200 with
\* the TokenSet, or 5xx with the error.
C6_GraceRetention ==
    \A i \in Started :
        LET r == RequestIdOf(i) IN
        /\ ~Settled(i) => r \in DOMAIN pendingAuthRequests
        /\ (Settled(i) /\ graceTimer[r] # Off) => r \in DOMAIN pendingAuthRequests
        /\ \A p \in PollIds :
              (poll[p].phase = "done" /\ poll[p].promise = i /\ poll[p].settled) =>
                  \/ poll[p].status = 200 /\ poll[p].token = promise[i].token
                  \/ poll[p].status = 500 /\ poll[p].error = promise[i].error

\* C7 (Spec): a status request for a requestId that is no key of the registry is
\* answered 404 in the step it arrives: it awaits no promise, arms no timer, and
\* leaves the registry and every authorization as they were.
C7_UnknownRequestStep ==
    \A p \in PollIds : \A r \in PollTargets \ DOMAIN pendingAuthRequests :
          PollStart(p, r) =>
              /\ poll'[p].phase = "done"
              /\ poll'[p].status = 404
              /\ poll'[p].promise = 0
              /\ ~poll'[p].timer
              /\ poll'[p].deadline = Off
              /\ pendingAuthRequests' = pendingAuthRequests
              /\ graceTimer' = graceTimer
              /\ promise' = promise
              /\ pendingAuths' = pendingAuths

C7_UnknownRequest404 == [][C7_UnknownRequestStep]_vars

\* C7 witness: a requestId purged after its grace period was polled and answered
\* 404
C7_Witness ==
    \E p \in PollIds :
        /\ poll[p].phase = "done"
        /\ poll[p].status = 404
        /\ \E i \in Started : Settled(i) /\ RequestIdOf(i) \notin DOMAIN pendingAuthRequests
        /\ alive

\* C8 (SpecTimed), as claimed: no Authorization State entry is there later than 5
\* minutes after its startAuth, no registry entry later than 5 minutes plus the
\* grace period after it, and no promise is unsettled after the 5 minutes.
C8_NoEntryOutlivesTimer ==
    /\ \A s \in DOMAIN pendingAuths :
          now <= hist[pendingAuths[s].promise].startedAt + AuthTimeoutMs
    /\ \A r \in DOMAIN pendingAuthRequests :
          now <= hist[pendingAuthRequests[r]].startedAt + AuthTimeoutMs + GraceMs
    /\ \A i \in Started :
          now > hist[i].startedAt + AuthTimeoutMs + GraceMs => Settled(i)

\* C9 (Spec), as claimed: the step in which one authorization fails leaves the
\* process serving and every other authorization's promise, entry, timers,
\* exchange and registry entry as they were.
C9_FailureStep ==
    \A i \in AuthIds :
        (promise[i].status = "pending" /\ promise'[i].status = "rejected") =>
            /\ alive'
            /\ \A j \in AuthIds \ {i} :
                  /\ promise'[j] = promise[j]
                  /\ exchange'[j] = exchange[j]
                  /\ authTimer'[j] = authTimer[j]
                  /\ graceTimer'[RequestIdOf(j)] = graceTimer[RequestIdOf(j)]
                  /\ StateOf(j) \in DOMAIN pendingAuths' <=> StateOf(j) \in DOMAIN pendingAuths
                  /\ RequestIdOf(j) \in DOMAIN pendingAuthRequests'
                        <=> RequestIdOf(j) \in DOMAIN pendingAuthRequests

C9_FailureIsolated == [][C9_FailureStep]_vars

\* the callback for a known state ended authorization i without an exchange
C10_EndedWithout(i, state) ==
    /\ exchange'[i].sent = 0
    /\ state \notin DOMAIN pendingAuths'
    /\ authTimer'[i] = Off

\* C10 (SpecInputs), as claimed: a callback for a known state whose query has an
\* error parameter rejects the promise with that string, and one with neither
\* error nor code rejects it with "No code received"; no exchange is sent and the
\* entry and timer are removed.
C10_PresentStep ==
    \A q \in {c \in AllCallbacks : c.state \in DOMAIN pendingAuths} :
        Callback(REDIRECT_PATH, q.state, q.code, q.error) =>
            LET i == pendingAuths[q.state].promise IN
            /\ q.error # Null =>
                  promise'[i] = Rejected(q.error) /\ C10_EndedWithout(i, q.state)
            /\ (q.error = Null /\ q.code = Null) =>
                  promise'[i] = Rejected("No code received") /\ C10_EndedWithout(i, q.state)

C10_ErrorPresent == [][C10_PresentStep]_vars

\* C10 (SpecInputs), amended: a callback for a known state whose error parameter is
\* present and not empty rejects the promise with that string, also when a code is
\* present; one whose error and code parameters are both absent or empty rejects it
\* with "No code received"; no exchange is sent and the entry and timer are removed.
C10_NonEmptyStep ==
    \A q \in {c \in AllCallbacks : c.state \in DOMAIN pendingAuths} :
        Callback(REDIRECT_PATH, q.state, q.code, q.error) =>
            LET i == pendingAuths[q.state].promise IN
            /\ q.error \notin {Null, ""} =>
                  promise'[i] = Rejected(q.error) /\ C10_EndedWithout(i, q.state)
            /\ (q.error \in {Null, ""} /\ q.code \in {Null, ""}) =>
                  promise'[i] = Rejected("No code received") /\ C10_EndedWithout(i, q.state)

C10_ErrorNonEmpty == [][C10_NonEmptyStep]_vars

\* C10 witness: a callback carrying an error was accepted; the
\* promise is rejected with the error and no exchange was sent
C10_Witness ==
    \E i \in Started :
        /\ promise[i] = Rejected("access_denied")
        /\ hist[i].accepted
        /\ exchange[i].sent = 0
        /\ StateOf(i) \notin DOMAIN pendingAuths


\* C11 (SpecInputs), as claimed: when the token endpoint refuses the code, the
\* promise is rejected with an error carrying the upstream body, the answer already
\* given to the browser stays as it was, and the error is there for the poller: the
\* process keeps serving, the registry entry is kept, and every status request
\* answered from that promise is a 500 with that error text.
C11_Refusals == {r \in TokenResponses : ~r.net /\ ~r.ok}

C11_RefusedStep ==
    \A i \in AuthIds, resp \in C11_Refusals, found \in Lookups :
        ExchangeReply(i, resp, found) =>
            /\ promise'[i] = Rejected("Token exchange failed: " \o resp.text)
            /\ lastCb' = lastCb
            /\ alive'
            /\ RequestIdOf(i) \in DOMAIN pendingAuthRequests'
            /\ \A p \in PollIds :
                  (poll[p].phase = "waiting" /\ poll[p].promise = i) =>
                      poll'[p].status = 500 /\ poll'[p].error = promise'[i].error

C11_RefusedPolls ==
    \A p \in PollIds, resp \in C11_Refusals :
        (poll[p].phase = "done" /\ poll[p].promise # 0 /\ poll[p].settled
            /\ promise[poll[p].promise] = Rejected("Token exchange failed: " \o resp.text)) =>
                /\ poll[p].status = 500
                /\ poll[p].error = "Token exchange failed: " \o resp.text

C11_RefusalSurfaced == []C11_RefusedPolls /\ [][C11_RefusedStep]_vars

\* C12 (SpecInputs): whatever the token endpoint answers, a reply without
\* access_token or without refresh_token rejects the promise and yields no TokenSet,
\* also with a successful status and the other token present; a promise resolves
\* only on a successful reply with both, and its TokenSet then holds both.
C12_PartialGrantStep ==
    \A i \in {j \in AuthIds : exchange[j].phase = "inflight"} :
    \A resp \in TokenResponses, found \in Lookups :
        ExchangeReply(i, resp, found) =>
            /\ (~resp.access \/ ~resp.refresh) =>
                  promise'[i].status = "rejected" /\ promise'[i].token = NoToken
            /\ promise'[i].status = "resolved" =>
                  /\ ~resp.net /\ resp.ok /\ resp.access /\ resp.refresh
                  /\ promise'[i].token.access # Null
                  /\ promise'[i].token.refresh # Null
            /\ (~resp.net /\ resp.ok /\ resp.access /\ resp.refresh) =>
                  promise'[i].status = "resolved"

C12_PartialGrantFails == [][C12_PartialGrantStep]_vars

\* C12 witness: a successful reply with access_token but no refresh_token was
\* received and the promise is rejected
C12_Witness ==
    \E i \in Started :
        /\ promise[i] = Rejected("Token exchange returned no refresh_token")
        /\ exchange[i].phase = "done"


\* the email lookup got a usable answer
C13_EmailFound(e) == ~e.net /\ e.ok /\ e.parses /\ e.email # Null

\* the discovery endpoint failed or named no project
C13_NoProject(r) ==
    \/ r.net
    \/ ~r.ok
    \/ ~r.parses
    \/ r.type = "undefined"
    \/ r.type = "object" /\ r.id \in {Null, ""}

\* every pair of answers to the two lookups, with what the lookups made of it
C13_Cases ==
    { [e |-> e, d |-> d, found |-> LookupResult(e, d)] :
        e \in EmailReplies, d \in DiscoveryInputs }

\* C13 (SpecLookups): when the token endpoint grants the code, the promise resolves
\* with a TokenSet whatever the email lookup and the project discovery did (network
\* error, non-2xx, malformed body, no identifier, at any or all endpoints): email is
\* undefined unless the lookup found one, projectId is the fallback id when no
\* endpoint named a project, and neither lookup ever rejects the promise.
C13_LookupStep ==
    \A i \in {j \in AuthIds : exchange[j].phase = "inflight"} :
    \A found \in {c.found : c \in C13_Cases} :
        ExchangeReply(i, GoodReply, found) =>
            /\ promise'[i].status = "resolved"
            /\ promise'[i].token.access = Grant("access", exchange[i].code, exchange[i].verifier)
            /\ promise'[i].token.refresh = Grant("refresh", exchange[i].code, exchange[i].verifier)
            /\ \A c \in {x \in C13_Cases : x.found = found} :
                  /\ promise'[i].token.email =
                        (IF C13_EmailFound(c.e) THEN c.e.email ELSE Null)
                  /\ (\A k \in DOMAIN c.d : C13_NoProject(c.d[k])) =>
                        promise'[i].token.projectId = DEFAULT_PROJECT_ID
                  /\ promise'[i].token.projectId # Null

C13_LookupsNeverReject == [][C13_LookupStep]_vars

\* C13 witness: the exchange succeeded, both lookups failed, and the promise is
\* resolved with a TokenSet without email and with the fallback project
C13_Witness ==
    \E i \in Started :
        /\ promise[i].status = "resolved"
        /\ promise[i].token.email = Null
        /\ promise[i].token.projectId = DEFAULT_PROJECT_ID
        /\ promise[i].token.access = Grant("access", CodeFor(i), VerifierOf(i))


\* a successful answer naming the project as a bare string or as an object's id
C14_Usable(r) ==
    /\ ~r.net /\ r.ok /\ r.parses
    /\ \/ r.type = "string"
       \/ r.type = "object" /\ r.id \notin {Null, ""}

C15_SingleListener ==
    /\ callbackServer <= 1
    /\ callbackServer = 1 <=> nextAuth >= 1

\* C15 witness: two startAuth calls were made and one listener exists
C15_Witness == nextAuth >= 2 /\ callbackServer = 1

\* C16 (SpecInputs): every request to the callback path is answered 200 whatever
\* code, state and error are, in the step that receives it; no other step (the
\* token endpoint's reply, a timer) writes an answer of the loopback server, so the
\* answer does not depend on the exchange and is not sent again.
C16_AnswerStep ==
    /\ lastCb' = 200
          \/ \A q \in AllCallbacks : ~Callback(REDIRECT_PATH, q.state, q.code, q.error)
    /\ lastCb' = lastCb
          \/ \E q \in AllCallbacks : Callback(REDIRECT_PATH, q.state, q.code, q.error)
          \/ Callback("/favicon.ico", Null, Null, Null)

C16_AlwaysConfirmed == [][C16_AnswerStep]_vars

\* C16 witness: the browser was answered 200 and the exchange that followed failed
C16_Witness ==
    /\ lastCb = 200
    /\ \E i \in Started :
          /\ exchange[i].phase = "done"
          /\ promise[i].status = "rejected"
          /\ alive


\* the request brings no credential of either kind, and the process has none
C17_NoCredential(req) ==
    /\ req.localKey = Null /\ req.headerKey = Null
    /\ req.clientAuth = Null /\ req.ideToken = Null

\* C17 (SpecGenerate): a generation request with no API key (local or header) and
\* no bearer token (header or IDE store) is answered 401 in the step it arrives,
\* and no upstream call is made for it.
C17_NoCredential401 ==
    (gen.phase # "idle" /\ C17_NoCredential(gen.req)) =>
        /\ gen.phase = "done"
        /\ gen.out.status = 401
        /\ gen.calls = << >>
        /\ gen.replies = << >>

\* C17 witness: a request with a model but no credential was answered 401
C17_Witness ==
    /\ gen.phase = "done"
    /\ C17_NoCredential(gen.req)
    /\ gen.req.model = "text-model"
    /\ gen.out.status = 401

\* the body names no model
C18_ModelMissing(req) == req.model \in {Null, ""}

\* C18 (SpecGenerate), as claimed: a request without model name fails with the
\* validation error, 400, and no upstream call, for every combination of
\* credentials and both stream settings.
C18_MissingModel400 ==
    (gen.phase # "idle" /\ C18_ModelMissing(gen.req)) =>
        /\ gen.phase = "done"
        /\ gen.out.status = 400
        /\ gen.out.body = "Model is required"
        /\ gen.calls = << >>

\* C18 (SpecGenerate), amended: a request without model name is refused with a 4xx
\* and no upstream call for every combination of credentials and both stream
\* settings: with the validation error 400 when a credential is present, with the
\* authentication error 401 when none is.
C18_MissingModel4xx ==
    (gen.phase # "idle" /\ C18_ModelMissing(gen.req)) =>
        /\ gen.phase = "done"
        /\ gen.calls = << >>
        /\ gen.replies = << >>
        /\ gen.out.status \in 400 .. 499
        /\ IF C17_NoCredential(gen.req)
           THEN gen.out.status = 401
           ELSE gen.out.status = 400 /\ gen.out.body = "Model is required"

\* C18 witness: a streamed request with both credentials and no model was answered
\* 400
C18_Witness ==
    /\ gen.phase = "done"
    /\ gen.req.model = Null
    /\ gen.req.stream
    /\ gen.req.localKey # Null /\ gen.req.ideToken # Null
    /\ gen.out.status = 400

\* C19 (SpecGenerate): when the call of the API-key strategy is answered 400, the
\* caller gets status 400 with the upstream body and the API-key call is the only
\* upstream call, also when a bearer token is at hand.
C19_Terminal400 ==
    (Len(gen.replies) >= 1 /\ gen.replies[1].strategy = "api-key"
        /\ ~gen.replies[1].net /\ gen.replies[1].status = 400) =>
            /\ gen.phase = "done"
            /\ gen.out.status = 400
            /\ gen.out.body = gen.replies[1].body
            /\ Len(gen.calls) = 1
            /\ gen.calls[1].strategy = "api-key"

\* C19 witness: the API-key call was answered 400 while a bearer token was at hand
C19_Witness ==
    /\ gen.phase = "done"
    /\ gen.authToken # Null
    /\ Len(gen.replies) = 1
    /\ gen.replies[1].status = 400
    /\ gen.out.status = 400

\* the API-key call ended in an exception or in a non-2xx other than 400
C20_ApiKeyFailed(g) ==
    /\ Len(g.replies) >= 1
    /\ g.replies[1].strategy = "api-key"
    /\ \/ g.replies[1].net
       \/ g.replies[1].status \notin (200 .. 299) \cup {400}

\* the OAuth call is made next, and nothing of the failed attempt is sent
C20_FallsBack ==
    (C20_ApiKeyFailed(gen) /\ gen.authToken \notin {Null, ""}) =>
        /\ Len(gen.calls) = 2
        /\ gen.calls[1].strategy = "api-key"
        /\ gen.calls[2].strategy = "oauth"
        /\ gen.calls[2].credential = gen.authToken
        /\ gen.phase = "done" =>
              /\ gen.out.body # gen.replies[1].body
              /\ gen.out.source # "gemini-api-key-direct"

\* the OAuth call that followed the failed API-key call was answered 2xx, with a
\* JSON body if the request is unary
C20_OAuthServed(g) ==
    /\ C20_ApiKeyFailed(g)
    /\ g.phase = "done"
    /\ Len(g.replies) = 2
    /\ ~g.replies[2].net
    /\ g.replies[2].status \in 200 .. 299
    /\ g.replies[2].json \/ g.req.stream

C21_Rank(strategy) == IF strategy = "api-key" THEN 1 ELSE 2

\* the position of the handler on its straight line
C21_PhaseRank(phase) ==
    CASE phase = "idle" -> 0 [] phase = "api-key" -> 1 [] phase = "oauth" -> 2
      [] phase = "done" -> 3

\* at most two calls, each strategy at most once, the API-key call first
C21_CallsInOrder ==
    /\ Len(gen.calls) <= 2
    /\ \A k \in 1 .. Len(gen.calls) : gen.calls[k].strategy \in {"api-key", "oauth"}
    /\ \A j, k \in 1 .. Len(gen.calls) :
          j < k => C21_Rank(gen.calls[j].strategy) < C21_Rank(gen.calls[k].strategy)
    /\ Len(gen.replies) <= Len(gen.calls)

\* within a request the handler only moves forward and only adds calls
C21_ForwardStep ==
    gen'.phase # "idle" =>
        /\ C21_PhaseRank(gen'.phase) > C21_PhaseRank(gen.phase)
        /\ Len(gen'.calls) >= Len(gen.calls)
        /\ SubSeq(gen'.calls, 1, Len(gen.calls)) = gen.calls

\* C21 (SpecGenerate): for every generation request at most two upstream calls are
\* made, at most one per strategy, the OAuth call never before the API-key call;
\* the handler never returns to a step it has left, so no strategy is attempted a
\* second time for the same request.
C21_TwoAttemptPipeline == []C21_CallsInOrder /\ [][C21_ForwardStep]_vars

\* C21 witness: a request for which both strategies were attempted, in order
C21_Witness ==
    /\ gen.phase = "done"
    /\ Len(gen.calls) = 2
    /\ gen.calls[1].strategy = "api-key"
    /\ gen.calls[2].strategy = "oauth"

\* C22 (SpecGenerate): when the call of the OAuth strategy is answered with a
\* non-2xx status, the caller gets exactly that status and body, and no upstream
\* call follows.
C22_OAuthFailureTerminal ==
    \A k \in 1 .. Len(gen.replies) :
        (gen.replies[k].strategy = "oauth" /\ ~gen.replies[k].net
            /\ gen.replies[k].status \notin 200 .. 299) =>
                /\ gen.phase = "done"
                /\ gen.out.status = gen.replies[k].status
                /\ gen.out.body = gen.replies[k].body
                /\ k = Len(gen.replies)
                /\ Len(gen.calls) = k
                /\ gen.calls[k].strategy = "oauth"

\* C22 witness: the OAuth call, made after a failed API-key call, was answered 429
\* and the caller got the 429
C22_Witness ==
    /\ gen.phase = "done"
    /\ Len(gen.replies) = 2
    /\ gen.replies[2].strategy = "oauth"
    /\ gen.replies[2].status = 429
    /\ gen.out.status = 429

\* every call made for the request ended in a network-level failure
C23_NothingToRelay(g) ==
    /\ g.phase = "done"
    /\ g.req.model \notin {Null, ""}
    /\ Len(g.replies) = Len(g.calls)
    /\ \A k \in 1 .. Len(g.replies) : g.replies[k].net

\* C23 (SpecGenerate): when the strategies available to a request are exhausted
\* and every call ended in a network-level failure, the answer is 503 with an error
\* body if at least one credential is present, and 401 only if none is; the
\* handler's own 401 is never sent to a request that has a credential.
C23_Exhaustion503 ==
    /\ C23_NothingToRelay(gen) =>
          IF C17_NoCredential(gen.req)
          THEN gen.out.status = 401 /\ gen.calls = << >>
          ELSE /\ gen.out.status = 503
               /\ gen.out.body = "All attempts failed. Check quota (Antigravity) or API Key."
               /\ gen.calls # << >>
    /\ (gen.phase = "done" /\ gen.replies = << >> /\ gen.out.status = 401) =>
          C17_NoCredential(gen.req)

\* C23 witness: both strategies were attempted, both calls failed at the network
\* level, and the caller got 503
C23_Witness ==
    /\ C23_NothingToRelay(gen)
    /\ Len(gen.replies) = 2
    /\ gen.out.status = 503

\* C24 (SpecGenerate): a 5xx from the last strategy available to the request (the
\* OAuth strategy, or the API-key strategy when no bearer token is at hand) reaches
\* the caller with its status and body.
C24_Last5xxSurfaced ==
    \A k \in 1 .. Len(gen.replies) :
        (/\ gen.phase = "done"
         /\ ~gen.replies[k].net
         /\ gen.replies[k].status \in 500 .. 599
         /\ gen.replies[k].strategy = "oauth" \/ gen.authToken \in {Null, ""}) =>
            /\ gen.out.status = gen.replies[k].status
            /\ gen.out.body = gen.replies[k].body

\* the tags that name a strategy
C25_TagsOf(strategy) ==
    IF strategy = "api-key" THEN {"gemini-api-key-direct"}
    ELSE {"cloud-ai-companion-cracked", "cloud-ai-companion-failed"}

\* C25 (SpecGenerate): every response that relays an upstream response (unary
\* success, streamed success, upstream error) carries a tag, and the tag names the
\* strategy whose response is relayed.
C25_EveryRelayTagged ==
    (gen.phase = "done" /\ gen.finalResponse # NoResponse /\ gen.answers = 1) =>
        gen.out.source \in C25_TagsOf(gen.finalResponse.strategy)

\* the static table of the public equivalents; any other name stands for itself
C26_PublicEquivalent(model) ==
    CASE model \in {"gemini-3-flash-preview", "gemini-3-flash", "gemini-2.0-flash-exp"}
           -> "gemini-2.5-flash"
      [] model \in {"gemini-3-pro-preview", "gemini-3-pro-low", "gemini-3-pro-high"}
           -> "gemini-2.5-pro"
      [] OTHER -> model

\* C26 (SpecGenerate): when the API-key call is answered 2xx, it is the only call
\* made, also with a bearer token at hand; it goes to the public endpoint with the
\* model's public equivalent, names absent from the table unchanged; a unary
\* request gets 200 tagged "gemini-api-key-direct".
C26_ApiKeySuccess ==
    (Len(gen.replies) >= 1 /\ gen.replies[1].strategy = "api-key"
        /\ ~gen.replies[1].net /\ gen.replies[1].status \in 200 .. 299
        /\ gen.replies[1].json) =>
            /\ gen.phase = "done"
            /\ Len(gen.calls) = 1
            /\ gen.calls[1].target = GEMINI_API_BASE
            /\ gen.calls[1].model = C26_PublicEquivalent(gen.req.model)
            /\ ~gen.req.stream =>
                  /\ gen.out.status = 200
                  /\ gen.out.source = "gemini-api-key-direct"

\* the store holds no token that can be read
C29_NoTokenInStore(store) == store \notin {"token", "token-in-json"}

\* C29 (SpecGenerate): the lookup in the IDE's store never throws and never
\* writes; from a store that is absent, locked, unreadable or without token it
\* yields no token, and the request goes on with the caller's credentials only: the
\* bearer credential is the Authorization header, and without any caller
\* credential the answer is 401.
C29_LookupBestEffort ==
    gen.phase # "idle" =>
        /\ gen.req.ideToken # Thrown
        /\ StoreAfterLookup(gen.req.store) = gen.req.store
        /\ C29_NoTokenInStore(gen.req.store) =>
              /\ gen.req.ideToken = Null
              /\ gen.authToken = gen.req.clientAuth
              /\ \A k \in 1 .. Len(gen.calls) :
                    gen.calls[k].strategy = "oauth" =>
                        gen.calls[k].credential = gen.req.clientAuth
              /\ (gen.req.clientAuth = Null /\ gen.req.localKey = Null
                    /\ gen.req.headerKey = Null) => gen.out.status = 401

\* C29 witness: with the store locked, the OAuth call was made with the caller's
\* Authorization header
C29_Witness ==
    /\ gen.phase # "idle"
    /\ gen.req.store = "locked"
    /\ Len(gen.calls) >= 1
    /\ gen.calls[Len(gen.calls)].strategy = "oauth"
    /\ gen.calls[Len(gen.calls)].credential = "Bearer client-token"


\* what the client has got is a prefix of what the upstream sent
C27_Prefix ==
    /\ Len(relay.written) <= Len(relay.produced)
    /\ SubSeq(relay.produced, 1, Len(relay.written)) = relay.written

\* chunks reach the client in arrival order, none dropped or duplicated, under
\* the event-stream content type, and the client stream ends only after the
\* upstream has ended and everything it sent has been written
C27_Relayed ==
    /\ C27_Prefix
    /\ (relay.written # << >> \/ relay.client = "ended") =>
          Piping /\ gen.out.contentType = "text/event-stream"
    /\ relay.client = "ended" =>
          relay.src = "ended" /\ relay.written = relay.produced

\* C27 (SpecStream): with stream = true and a successful strategy the upstream
\* chunks are relayed in arrival order, none reordered, dropped or duplicated,
\* under content type text/event-stream, and the client stream is ended when, and
\* only after, the upstream stream ends.
C27_StreamRelay ==
    []C27_Relayed /\ ((relay.src = "ended") ~> (relay.client = "ended"))

\* C27 witness: the upstream sent two or more chunks and ended, and the client
\* stream ended after receiving all of them
C27_Witness ==
    /\ relay.client = "ended"
    /\ Len(relay.written) >= 2
    /\ relay.written = relay.produced

\* C28 (SpecStream): after the upstream stream fails mid-flight the client
\* stream is terminated, with nothing written that the upstream did not send.
C28_ErrorTerminates ==
    []C27_Prefix /\ ((relay.src = "errored") ~> (relay.client # "open"))

\* base64url digit to its value
C30_Value(ch) == (CHOOSE k \in 1 .. 64 : Base64UrlAlphabet[k] = ch) - 1

\* the number a string of base64url digits denotes
RECURSIVE C30_Number(_)
C30_Number(chars) ==
    IF chars = << >> THEN 0
    ELSE C30_Number(SubSeq(chars, 1, Len(chars) - 1)) * 64 + C30_Value(chars[Len(chars)])

\* the n bytes of a number
RECURSIVE C30_Bytes(_, _)
C30_Bytes(value, n) ==
    IF n = 0 THEN << >> ELSE Append(C30_Bytes(value \div 256, n - 1), value % 256)

\* the bytes an unpadded base64url string stands for
RECURSIVE C30_Decode(_)
C30_Decode(chars) ==
    IF Len(chars) = 0 THEN << >>
    ELSE IF Len(chars) = 1 THEN << -1 >>
    ELSE IF Len(chars) = 2 THEN C30_Bytes(C30_Number(chars) \div 16, 1)
    ELSE IF Len(chars) = 3 THEN C30_Bytes(C30_Number(chars) \div 4, 2)
    ELSE C30_Bytes(C30_Number(SubSeq(chars, 1, 4)), 3)
            \o C30_Decode(SubSeq(chars, 5, Len(chars)))

\* the challenge of a URL is the unpadded base64url form of the digest of v
C30_ChallengeOf(url, v) ==
    /\ url.code_challenge_method = "S256"
    /\ Len(url.code_challenge) = 43
    /\ \A k \in 1 .. Len(url.code_challenge) :
          \E d \in 1 .. 64 : Base64UrlAlphabet[d] = url.code_challenge[k]
    /\ C30_Decode(url.code_challenge) = Sha256(Utf8(v))

\* C30 (SpecPkce): for every startAuth call the code_challenge of the returned URL is
\* the unpadded base64url SHA-256 of the verifier stored under the URL's state,
\* and the verifier sent to the token endpoint for an accepted callback with that
\* state is that same verifier.
C30_PkceBound ==
    \A i \in AuthIds :
        nextAuth >= i =>
            /\ authUrl[i].state = StateOf(i)
            /\ authUrl[i].state \in DOMAIN pendingAuths =>
                  C30_ChallengeOf(authUrl[i], pendingAuths[authUrl[i].state].verifier)
            /\ exchange[i].phase # "none" =>
                  C30_ChallengeOf(authUrl[i], exchange[i].verifier)

\* C30 witness: the callback of the second authorization was accepted and its
\* verifier sent, while the first authorization is still pending
C30_Witness ==
    /\ nextAuth >= 2
    /\ exchange[2].phase # "none"
    /\ exchange[2].verifier = "v2"
    /\ authUrl[2].code_challenge[1] = "-"
    /\ StateOf(1) \in DOMAIN pendingAuths


\* the token exchange of a state is sent at most once, and from the acceptance of
\* its callback on the state's entry is gone and its timer is disarmed
C32_ExchangedOnce ==
    \A i \in AuthIds :
        /\ exchange[i].sent <= 1
        /\ exchange[i].phase # "none" =>
              /\ exchange[i].sent = 1
              /\ hist[i].accepted
              /\ StateOf(i) \notin DOMAIN pendingAuths
              /\ authTimer[i] = Off

\* a callback whose state has been accepted before changes nothing but the answer
C32_ReplayStep ==
    (C3_Frame /\ lastCb' = 200)
    \/ \A q \in {c \in ProviderCallbacks :
                    \E i \in AuthIds : c.state = StateOf(i) /\ hist[i].accepted} :
           ~Callback(REDIRECT_PATH, q.state, q.code, q.error)

\* C32 (SpecPkce): for each state the token exchange is invoked at most once: the
\* first accepted callback removes the entry and cancels the timer in the step
\* that accepts it, and a later callback with the same state, also one arriving
\* while the exchange is in flight, is a no-op.
C32_SecondCallbackNoOp == []C32_ExchangedOnce /\ [][C32_ReplayStep]_vars

\* C32 witness: two authorizations have their exchanges in flight, each sent once;
\* their entries are gone and their timers cancelled while the listener still
\* accepts callbacks carrying the two states
C32_Witness ==
    /\ alive /\ callbackServer > 0
    /\ nextAuth >= 2
    /\ \A i \in {1, 2} :
          /\ exchange[i].phase = "inflight" /\ exchange[i].sent = 1
          /\ hist[i].accepted
          /\ StateOf(i) \notin DOMAIN pendingAuths
          /\ authTimer[i] = Off
    /\ lastCb = 200

\* C33 (Spec): once a status request has responded, the 25-second timer it armed
\* is no longer pending.
C33_LoserCleared ==
    \A p \in PollIds : poll[p].phase = "done" => ~poll[p].timer

\* C34 (SpecGenerate): every generation request gets exactly one response, on
\* every path through the handler.
C34_OneResponse ==
    /\ gen.answers <= 1
    /\ gen.phase = "done" => gen.answers = 1 /\ gen.out.status # 0

\* C35 (SpecGenerate): a request without model and without any credential is
\* answered 401, and the 400 of the model validation goes only to requests with
\* at least one credential.
C35_CredentialsFirst ==
    gen.phase = "done" =>
        /\ (C18_ModelMissing(gen.req) /\ C17_NoCredential(gen.req)) =>
              /\ gen.out.status = 401
              /\ gen.out.body = "No authorization header and no API Key found"
        /\ (gen.replies = << >> /\ gen.out.status = 400) =>
              /\ ~C17_NoCredential(gen.req)
              /\ C18_ModelMissing(gen.req)

\* C35 witness: a request with neither model nor credential was answered 401
C35_Witness ==
    /\ gen.phase = "done"
    /\ gen.req.model = ""
    /\ C17_NoCredential(gen.req)
    /\ gen.out.status = 401

\* C36 (SpecGenerate): the token of the IDE's store takes the place of the
\* caller's Authorization header, the local API key the place of the caller's key
\* header; the caller's credential is used only when the local one is absent.
C36_LocalFirst ==
    gen.phase # "idle" =>
        /\ gen.authToken = IF gen.req.ideToken # Null THEN "Bearer " \o gen.req.ideToken
                           ELSE gen.req.clientAuth
        /\ gen.apiKey = IF gen.req.localKey # Null THEN gen.req.localKey
                        ELSE gen.req.headerKey
        /\ \A k \in 1 .. Len(gen.calls) :
              gen.calls[k].credential =
                  IF gen.calls[k].strategy = "api-key" THEN gen.apiKey ELSE gen.authToken

\* C36 witness: with all four credentials present both strategies were attempted,
\* the first with the local key and the second with the IDE's token
C36_Witness ==
    /\ Len(gen.calls) = 2
    /\ gen.req.headerKey # Null /\ gen.req.clientAuth # Null
    /\ gen.calls[1].credential = "local-key"
    /\ gen.calls[2].credential = "Bearer ya29.ide-token"

\* C37 (SpecClient): the poll loop makes at most 30 status requests, and it sends no
\* further request after a 404 or a 5xx answer: such an answer ends the polling.
C37_StopsOnTerminalStatus ==
    /\ client.requests <= maxAttempts
    /\ client.before.status \notin {404, 500}

\* C38 (SpecClient): once a 200 has been received the tokens and the user are in
\* localStorage and the loop has returned the tokens, whatever TokenSet the answer
\* carried.
C38_First200Stored ==
    client.got200 =>
        /\ client.phase = "returned"
        /\ client.result = "tokens"
        /\ client.tokens # Null
        /\ client.user # Null

\* C40 (SpecExtension): whatever the order of server starts and stops and of
\* client connects and disconnects, connectedClients is the number of open client
\* connections and is never negative.
C40_CounterExact ==
    /\ ext.connectedClients = ext.open
    /\ ext.connectedClients >= 0

\* the bookkeeping of request r agrees with its promise
C39_Consistent ==
    \A r \in ReqIds :
        /\ bridge.settleCalls[r] <= 1
        /\ (r \in bridge.pendingRequests) <=> (bridge.promise[r].status = "pending")
        /\ bridge.timer[r] <=> (r \in bridge.pendingRequests)
        /\ (bridge.promise[r].status \in {"resolved", "rejected"}) <=>
               (bridge.settleCalls[r] = 1)
        /\ (r > bridge.nextReq) <=> (bridge.promise[r].status = "none")

\* a message whose requestId matches no entry leaves the bridge as it is
C39_UnmatchedStep ==
    \A m \in BridgeMessages :
        (m.requestId \notin bridge.pendingRequests /\ BridgeMessage(m)) =>
            bridge' = bridge

\* C39 (SpecBridge): every request registered by sendRequest is settled at most
\* once, by its response, its timeout, or a close or disconnect, and in that step
\* leaves pendingRequests with its timer cleared; a pending promise always has
\* its entry and its timer, so that it will be settled; pendingRequests holds no
\* settled request; a response matching no entry settles nothing.
C39_SettledOnce == []C39_Consistent /\ [][C39_UnmatchedStep]_vars

\* C39 witness: two requests were registered; the first was resolved by its
\* response, the second rejected when the connection closed
C39_Witness ==
    /\ bridge.nextReq = 2
    /\ bridge.promise[1].status = "resolved"
    /\ bridge.promise[2] = Rejection("Connection closed")
    /\ bridge.settleCalls[1] = 1 /\ bridge.settleCalls[2] = 1
    /\ bridge.pendingRequests = {}

\* routeTask has not rejected; without a connected bridge the task goes to Spark;
\* a task whose executeTask promise was rejected ends at Spark; a Spark failure
\* is returned as a result
C31_Outcome ==
    /\ route.phase # "rejected"
    /\ (route.phase # "idle" /\ ~route.up) =>
          /\ route.req = 0
          /\ route.phase \in {"spark", "done"}
          /\ route.phase = "done" => route.out.executor = "SPARK"
    /\ (route.phase # "idle" /\ route.req # 0) =>
          (bridge.promise[route.req].status = "rejected" =>
              /\ route.phase \in {"antigravity", "spark", "done"}
              /\ route.phase = "done" => route.out.executor = "SPARK")
    /\ (route.phase = "done" /\ route.out.executor = "SPARK" /\ route.spark.thrown) =>
          route.out = [executor |-> "SPARK", success |-> FALSE,
                       error |-> route.spark.message]

\* when the await of executeTask ends with a rejection, Spark is called next
C31_ResumeStep ==
    (route.phase = "antigravity" /\ route'.phase # "antigravity") =>
        IF bridge.promise[route.req].status = "rejected"
        THEN route'.phase = "spark" /\ route'.cause = bridge.promise[route.req].value
        ELSE route'.phase = "done" /\ route'.out.executor = "ANTIGRAVITY"

\* C31 (SpecRoute): routeTask falls back to Spark whenever the bridge is not
\* connected or executeTask rejects (timeout, connection closed, ERROR reply);
\* routeTask never rejects, and a failure of Spark is returned as a result with
\* executor SPARK and success false.
C31_FallsBackToSpark == []C31_Outcome /\ [][C31_ResumeStep]_vars

\* C31 witness: the task was sent to Antigravity, the connection closed, Spark
\* was called and threw, and routeTask returned the failure as a result
C31_Witness ==
    /\ route.phase = "done"
    /\ route.req # 0
    /\ bridge.promise[route.req] = Rejection("Connection closed")
    /\ route.cause = "Connection closed"
    /\ route.spark.thrown
    /\ route.out.executor = "SPARK" /\ ~route.out.success

====
